---- MODULE Spec2Model ----
(***************************************************************************)
(* Availability reconciliation and alert matching of the pickleball court  *)
(* watcher: app/availability_service.py (sync_availability, create_alerts, *)
(* match_watch, update_status), the scrape cycle of app/main.py and the    *)
(* unique constraints of app/models.py.                                    *)
(***************************************************************************)
EXTENDS Integers, Sequences, FiniteSets, TLC

(***************************************************************************)
(* Python values.  An optional value is None or Some(v); a dict entry may  *)
(* also be Missing (the key is absent).  Text that is searched (court      *)
(* names, court queries) is a sequence of one-character strings; ids and   *)
(* exception messages are strings.                                         *)
(***************************************************************************)
None == <<>>
Some(v) == <<v>>
Missing == <<"$missing", "$missing">>
Val(x) == x[1]
Present(x) == x # Missing /\ x # None

\* dict.get(key, default): the default only when the key is absent.
DictGet(x, default) == IF x = Missing THEN default ELSE x
\* dict.get(key): None when the key is absent.
Get(x) == DictGet(x, None)

\* Truthiness of an optional string / text / integer.
TruthyStr(x) == Present(x) /\ Val(x) # ""
TruthyText(x) == Present(x) /\ Val(x) # <<>>
TruthyInt(x) == Present(x) /\ Val(x) # 0

Max(S) == CHOOSE m \in S : \A k \in S : k <= m

\* Op applied to the value of v (v is evaluated once).
With(v, Op(_)) == CHOOSE r \in {Op(x) : x \in {v}} : TRUE
Range(s) == {s[i] : i \in 1..Len(s)}

(***************************************************************************)
(* Settings (app/config.py).                                               *)
(***************************************************************************)
PICKLEBALL == "pickleball"
TENNIS == "tennis"
settings_timezone == "America/Los_Angeles"
DEFAULT_DURATION_MINUTES == 60

\* zoneinfo.ZoneInfo(name): the UTC offset in minutes to add to a local time of the
\* modelled dates (late October: PDT), None when the key is unknown.
ZoneOffset(name) ==
    CASE name = "America/Los_Angeles" -> Some(420)
      [] name = "UTC" -> Some(0)
      [] OTHER -> None

(***************************************************************************)
(* Dates and times: a datetime is [date, tod], date a day number and tod   *)
(* the minutes since midnight.                                             *)
(***************************************************************************)
DT(d, t) == [date |-> d, tod |-> t]

\* datetime.strptime(slot_str, "%Y-%m-%d %H:%M:%S"): None stands for ValueError.
\* strptime accepts an hour without its leading zero, so two strings give 09:00.
Strptime(slot_str) ==
    CASE slot_str = "2025-10-27 09:00:00" -> Some(DT(27, 540))
      [] slot_str = "2025-10-27 9:00:00" -> Some(DT(27, 540))
      [] slot_str = "2025-10-27 18:00:00" -> Some(DT(27, 1080))
      [] slot_str = "2025-10-28 09:00:00" -> Some(DT(28, 540))
      [] OTHER -> None

\* parse_slot: None when ZoneInfo or strptime raises, else the local wall-clock
\* time, its zone and the UTC instant.
parse_slot(slot_str, timezone_name) ==
    LET off == ZoneOffset(IF TruthyStr(timezone_name) THEN Val(timezone_name)
                          ELSE settings_timezone)
        loc == Strptime(slot_str)
    IN  IF off = None \/ loc = None THEN None
        ELSE LET total == Val(loc).date * 1440 + Val(loc).tod + Val(off)
             IN  Some([local |-> Val(loc),
                       utc |-> DT(total \div 1440, total % 1440)])

(***************************************************************************)
(* The session of one cycle (autoflush is off, so nothing reaches the      *)
(* database before commit): working copies of the persistent rows, the     *)
(* pending inserts in db.add order, the rows marked deleted, and what      *)
(* sync_availability accumulates.  err holds the message of a raised       *)
(* exception.                                                              *)
(***************************************************************************)
NewSession(db) ==
    [locs |-> db.locations, locNew |-> <<>>,
     slots |-> db.slots, slotNew |-> <<>>, slotDel |-> {},
     watches |-> db.watches,
     alerts |-> db.alerts, alertNew |-> <<>>,
     status |-> db.status,
     incoming_keys |-> {}, new_records |-> <<>>,
     mail |-> <<>>,
     cur |-> None, err |-> None]

Raise(f, msg) == [f EXCEPT !.err = Some(msg)]

SlotKey(row) == <<row.location_id, row.court_id, row.slot_time_local>>

(***************************************************************************)
(* upsert_location                                                         *)
(***************************************************************************)
Thumbnail(images) == IF Present(images) THEN Get(Val(images).thumbnail) ELSE None

upsert_location(f, payload) ==
    IF payload.id = Missing THEN Raise(f, "KeyError: 'id'")
    ELSE
    LET id == Val(payload.id)
        image_url == Thumbnail(payload.images)
    IN  IF id \notin DOMAIN f.locs
        THEN IF payload.name = Missing THEN Raise(f, "KeyError: 'name'")
             ELSE LET row == [id |-> id,
                              name |-> payload.name,
                              address |-> Get(payload.formattedAddress),
                              timezone |-> Get(payload.timezone),
                              image_url |-> image_url]
                  IN  [f EXCEPT !.locNew = Append(@, row), !.cur = Some(row)]
        ELSE LET old == f.locs[id]
                 row == [id |-> id,
                         name |-> DictGet(payload.name, old.name),
                         address |-> DictGet(payload.formattedAddress, old.address),
                         timezone |-> DictGet(payload.timezone, old.timezone),
                         image_url |-> IF TruthyStr(image_url) THEN image_url
                                       ELSE old.image_url]
             IN  [f EXCEPT !.locs[id] = row, !.cur = Some(row)]

(***************************************************************************)
(* sync_availability: sport filter and duration resolution of one court    *)
(***************************************************************************)
\* sport.get("sportId") or sport.get("id")
SportOf(sport) ==
    IF TruthyStr(Get(sport.sportId)) THEN Get(sport.sportId) ELSE Get(sport.id)

\* court.get("sports") or []
SportsOf(court) == IF Present(court.sports) THEN Val(court.sports) ELSE <<>>

\* A sport filter that looks at the first declared sport only.
SportExcludedByFirst(court, target_sport_id) ==
    /\ TruthyStr(target_sport_id)
    /\ \/ SportsOf(court) = <<>>
       \/ SportOf(SportsOf(court)[1]) # target_sport_id

\* Whether the court is skipped by the sport filter (the two `continue`s).
SportExcluded(court, target_sport_id) ==
    LET sports == SportsOf(court)
        sport_ids == {SportOf(sports[i]) :
                        i \in {j \in 1..Len(sports) : TruthyStr(SportOf(sports[j]))}}
    IN  /\ TruthyStr(target_sport_id)
        /\ \/ sports = <<>>
           \/ target_sport_id \notin sport_ids

\* A maxReservationTime value is [kind, parts, n]: a string (kind "str") is the
\* list of its ":"-separated pieces, each Some(int) or None when int() raises, and
\* the empty string has no piece; a number (kind "int", or "float" in tenths) is n.
StrTime(parts) == [kind |-> "str", parts |-> parts, n |-> 0]
IntTime(n) == [kind |-> "int", parts |-> <<>>, n |-> n]
FloatTime(tenths) == [kind |-> "float", parts |-> <<>>, n |-> tenths]

TruthyTime(x) ==
    /\ Present(x)
    /\ IF Val(x).kind = "str" THEN Val(x).parts # <<>> ELSE Val(x).n # 0
HasColon(v) == v.kind = "str" /\ Len(v.parts) >= 2

\* h, m, s = [int(part) for part in value.split(":")]; h * 60 + m + (1 if s >= 30 else 0)
\* None stands for ValueError.
HmsMinutes(v) ==
    IF Len(v.parts) # 3 \/ \E i \in 1..Len(v.parts) : v.parts[i] = None THEN None
    ELSE Some(Val(v.parts[1]) * 60 + Val(v.parts[2])
              + (IF Val(v.parts[3]) >= 30 THEN 1 ELSE 0))

\* int(x) of a number: truncation toward zero.
PyInt(v) ==
    IF v.kind = "int" THEN v.n
    ELSE IF v.n >= 0 THEN v.n \div 10 ELSE -((-v.n) \div 10)

\* Lines 113-130: [err, value]; err holds the ValueError message.
location_duration(location_payload) ==
    LET x == location_payload.maxReservationTime
    IN  IF ~TruthyTime(x) THEN [err |-> None, value |-> DEFAULT_DURATION_MINUTES]
        ELSE IF HasColon(Val(x))
             THEN IF HmsMinutes(Val(x)) = None
                  THEN [err |-> Some("ValueError: maxReservationTime"), value |-> 0]
                  ELSE [err |-> None, value |-> Val(HmsMinutes(Val(x)))]
        ELSE IF Val(x).kind \in {"int", "float"}
             THEN [err |-> None, value |-> PyInt(Val(x))]
        ELSE [err |-> None, value |-> DEFAULT_DURATION_MINUTES]

resolve_duration(court, location_payload) ==
    LET allowed_minutes == IF Present(court.allowedMinutes)
                           THEN Val(court.allowedMinutes) ELSE <<>>
        max_time == Get(court.maxReservationTime)
        first == IF allowed_minutes # <<>>
                 THEN [err |-> None, value |-> Some(Max(Range(allowed_minutes)))]
                 ELSE IF TruthyTime(max_time) /\ HasColon(Val(max_time))
                      THEN IF HmsMinutes(Val(max_time)) = None
                           THEN [err |-> Some("ValueError: maxReservationTime"),
                                 value |-> None]
                           ELSE [err |-> None, value |-> HmsMinutes(Val(max_time))]
                      ELSE [err |-> None, value |-> None]
    IN  IF first.err # None THEN [err |-> first.err, value |-> 0]
        ELSE IF TruthyInt(first.value) THEN [err |-> None, value |-> Val(first.value)]
        ELSE location_duration(location_payload)

(***************************************************************************)
(* sync_availability: the slot loop, the court loop, the entry loop and    *)
(* the deletion of the slots the snapshot does not hold.                   *)
(***************************************************************************)
\* An index that never finds a persisted slot.
existing_index_miss(f, key) == None

\* existing_index.get(key): the id of the persisted slot with that identity key.
existing_index(f, key) ==
    LET hit == {id \in DOMAIN f.slots : SlotKey(f.slots[id]) = key}
    IN  IF hit = {} THEN None ELSE Some(CHOOSE id \in hit : TRUE)

\* A backfill that takes the incoming court name whatever it is.
backfill_any_name(existing, c) ==
    [existing EXCEPT !.court_name = c.court_name]

\* Lines 142-156: backfill of an existing slot.
backfill(existing, c) ==
    LET r1 == IF c.duration_minutes # 0
                 /\ existing.duration_minutes # Some(c.duration_minutes)
              THEN [existing EXCEPT !.duration_minutes = Some(c.duration_minutes)]
              ELSE existing
        r2 == IF TruthyStr(c.sport_id) /\ r1.sport_id # c.sport_id
              THEN [r1 EXCEPT !.sport_id = c.sport_id]
              ELSE r1
    IN  IF TruthyText(c.court_name) /\ ~TruthyText(r2.court_name)
        THEN [r2 EXCEPT !.court_name = c.court_name]
        ELSE r2

\* Lines 132-183 for one raw slot string of a court; c is the court's context.
sync_slot(f, c, raw_slot) ==
    LET parsed == parse_slot(raw_slot, c.timezone_name)
    IN  IF parsed = None THEN f
        ELSE
        LET local_dt == Val(parsed).local
            key == <<c.location_id, c.court_id, local_dt>>
            existing == existing_index(f, key)
            g == [f EXCEPT !.incoming_keys = @ \cup {key}]
        IN  IF existing # None
            THEN [g EXCEPT !.slots[Val(existing)] = backfill(@, c)]
            ELSE [g EXCEPT
                    !.slotNew = Append(@,
                        [location_id |-> c.location_id,
                         court_id |-> c.court_id,
                         court_name |-> c.court_name,
                         sport_id |-> c.sport_id,
                         duration_minutes |-> Some(c.duration_minutes),
                         slot_time_local |-> local_dt,
                         slot_time_utc |-> Val(parsed).utc]),
                    !.new_records = Append(@,
                        [location_id |-> c.location_id,
                         location_name |-> c.location_name,
                         timezone |-> c.timezone_name,
                         court_id |-> c.court_id,
                         court_name |-> c.court_name,
                         sport_id |-> c.sport_id,
                         slot_time_local |-> local_dt,
                         slot_time_utc |-> Val(parsed).utc,
                         duration_minutes |-> Some(c.duration_minutes)])]

\* A slot loop that a malformed timestamp ends.
RECURSIVE sync_slots_until_malformed(_, _, _, _)
sync_slots_until_malformed(f, c, raw_slots, i) ==
    IF i > Len(raw_slots) THEN f
    ELSE IF parse_slot(raw_slots[i], c.timezone_name) = None THEN f
    ELSE With(sync_slot(f, c, raw_slots[i]),
              LAMBDA g : sync_slots_until_malformed(g, c, raw_slots, i + 1))

RECURSIVE sync_slots(_, _, _, _)
sync_slots(f, c, raw_slots, i) ==
    IF i > Len(raw_slots) THEN f
    ELSE With(sync_slot(f, c, raw_slots[i]),
              LAMBDA g : sync_slots(g, c, raw_slots, i + 1))

\* Lines 93-183 for one court block.
sync_court(f, location_payload, court, target_sport_id) ==
    IF ~TruthyStr(Get(court.id)) THEN f
    ELSE IF SportExcluded(court, target_sport_id) THEN f
    ELSE
    LET name == Get(court.name)
        sports == SportsOf(court)
        duration == resolve_duration(court, location_payload)
        c == [location_id |-> Val(f.cur).id,
              location_name |-> Val(f.cur).name,
              timezone_name |-> IF TruthyStr(Get(location_payload.timezone))
                                THEN Get(location_payload.timezone)
                                ELSE Some(settings_timezone),
              court_id |-> Val(court.id),
              court_name |-> IF TruthyText(name) THEN name ELSE Get(court.displayName),
              sport_id |-> IF sports # <<>> THEN SportOf(sports[1]) ELSE None,
              duration_minutes |-> duration.value]
    IN  IF duration.err # None THEN Raise(f, Val(duration.err))
        ELSE With(c, LAMBDA ctx :
                sync_slots(f, ctx,
                           IF Present(court.availableSlots)
                           THEN Val(court.availableSlots) ELSE <<>>, 1))

RECURSIVE sync_courts(_, _, _, _, _)
sync_courts(f, location_payload, courts, target_sport_id, i) ==
    IF i > Len(courts) \/ f.err # None THEN f
    ELSE With(sync_court(f, location_payload, courts[i], target_sport_id),
              LAMBDA g : sync_courts(g, location_payload, courts, target_sport_id, i + 1))

\* An entry loop that upserts the location only when one of its courts passes the
\* sport filter.
sync_entry_skipping_filtered(f, entry, target_sport_id) ==
    IF ~Present(entry.location) THEN f
    ELSE
    LET location_payload == Val(entry.location)
        courts == IF location_payload.courts = Missing THEN <<>>
                  ELSE Val(location_payload.courts)
    IN  IF \A i \in 1..Len(courts) : SportExcluded(courts[i], target_sport_id) THEN f
        ELSE With(upsert_location(f, location_payload), LAMBDA g :
                IF g.err # None THEN g
                ELSE sync_courts(g, location_payload, courts, target_sport_id, 1))

\* Lines 83-183 for one entry of the payload.
sync_entry(f, entry, target_sport_id) ==
    IF ~Present(entry.location) THEN f
    ELSE
    LET location_payload == Val(entry.location)
    IN  With(upsert_location(f, location_payload), LAMBDA g :
            IF g.err # None THEN g
            ELSE IF location_payload.images = None
            THEN Raise(g, "AttributeError: 'NoneType' object has no attribute 'get'")
            ELSE sync_courts(g, location_payload,
                             IF location_payload.courts = Missing THEN <<>>
                             ELSE Val(location_payload.courts),
                             target_sport_id, 1))

RECURSIVE sync_entries(_, _, _, _)
sync_entries(f, payload, target_sport_id, i) ==
    IF i > Len(payload) \/ f.err # None THEN f
    ELSE With(sync_entry(f, payload[i], target_sport_id),
              LAMBDA g : sync_entries(g, payload, target_sport_id, i + 1))

\* A reconciliation that never deletes the slots the snapshot does not hold.
sync_availability_keeps_absent(f, payload, target_sport_id) ==
    sync_entries(f, payload, target_sport_id, 1)

\* sync_availability: the session after the call; new_records is what it returns.
sync_availability(f, payload, target_sport_id) ==
    With(sync_entries(f, payload, target_sport_id, 1), LAMBDA g :
        IF g.err # None THEN g
        ELSE [g EXCEPT !.slotDel =
                {id \in DOMAIN g.slots : SlotKey(g.slots[id]) \notin g.incoming_keys}])

(***************************************************************************)
(* update_status                                                           *)
(***************************************************************************)
\* error is None or Some(message); `if error:` is false for the empty message too.
update_status(f, error, now) ==
    LET status == IF f.status = None
                  THEN [last_successful_sync |-> None, last_error |-> None,
                        last_error_at |-> None]
                  ELSE Val(f.status)
    IN  [f EXCEPT !.status =
            Some(IF TruthyStr(error)
                 THEN [status EXCEPT !.last_error = error,
                                     !.last_error_at = Some(now)]
                 ELSE [status EXCEPT !.last_successful_sync = Some(now),
                                     !.last_error = None,
                                     !.last_error_at = None])]

(***************************************************************************)
(* match_watch                                                             *)
(***************************************************************************)
\* str.lower() on the modelled alphabet.
LowerChar(ch) ==
    CASE ch = "A" -> "a"
      [] ch = "B" -> "b"
      [] OTHER -> ch
Lower(text) == [i \in 1..Len(text) |-> LowerChar(text[i])]

\* sub in text
Contains(sub, text) ==
    \E i \in 0..(Len(text) - Len(sub)) : SubSeq(text, i + 1, i + Len(sub)) = sub

\* A predicate whose lower time bound is exclusive.
match_watch_exclusive_from(slot, watch) ==
    /\ watch.active
    /\ watch.location_id = slot.location_id
    /\ \/ ~TruthyText(watch.court_query)
       \/ Contains(Lower(Val(watch.court_query)),
                   Lower(IF TruthyText(slot.court_name) THEN Val(slot.court_name)
                         ELSE <<>>))
    /\ watch.target_date # None => slot.slot_time_local.date = Val(watch.target_date)
    /\ watch.time_from # None => slot.slot_time_local.tod > Val(watch.time_from)
    /\ watch.time_to # None => slot.slot_time_local.tod <= Val(watch.time_to)

match_watch(slot, watch) ==
    IF ~watch.active THEN FALSE
    ELSE IF watch.location_id # slot.location_id THEN FALSE
    ELSE IF /\ TruthyText(watch.court_query)
            /\ ~Contains(Lower(Val(watch.court_query)),
                         Lower(IF TruthyText(slot.court_name) THEN Val(slot.court_name)
                               ELSE <<>>))
         THEN FALSE
    ELSE IF watch.target_date # None /\ slot.slot_time_local.date # Val(watch.target_date)
         THEN FALSE
    ELSE IF watch.time_from # None /\ slot.slot_time_local.tod < Val(watch.time_from)
         THEN FALSE
    ELSE IF watch.time_to # None /\ slot.slot_time_local.tod > Val(watch.time_to)
         THEN FALSE
    ELSE TRUE

(***************************************************************************)
(* create_alerts                                                           *)
(***************************************************************************)
AlertKey(row) == <<row.watch_id, row.court_id, row.slot_time_local>>

\* The query for an Alert with the same (watch_id, court_id, slot_time_local): it
\* reads the database, where this session's pending alerts are not (no autoflush).
alert_exists(f, watch_id, slot) ==
    \E id \in DOMAIN f.alerts :
        AlertKey(f.alerts[id]) = <<watch_id, slot.court_id, slot.slot_time_local>>

(***************************************************************************)
(* send_email_alert (app/notifier.py).  smtp is [enabled, host, up]: the   *)
(* settings smtp_enabled and smtp_host, and whether the mail server        *)
(* accepts the message.                                                    *)
(***************************************************************************)
SmtpDefault == [enabled |-> FALSE, host |-> None, up |-> TRUE]

\* The addresses EmailMessage refuses as a header value (a line feed in them).
RefusedContacts == {"a@b.c\nBcc: x@y.z"}

\* "sent" (True), "skipped" or "failed" (False), or "raised": the assignment
\* msg["To"] = watch.contact raises ValueError outside the function's try.
\* A sender that does not look at the smtp_enabled switch.
send_email_alert_always_enabled(watch, smtp) ==
    IF ~TruthyStr(smtp.host) THEN "skipped"
    ELSE IF ~TruthyStr(watch.contact) THEN "skipped"
    ELSE IF ~smtp.up THEN "failed"
    ELSE "sent"

send_email_alert(watch, smtp) ==
    IF ~smtp.enabled THEN "skipped"
    ELSE IF ~TruthyStr(smtp.host) THEN "skipped"
    ELSE IF ~TruthyStr(watch.contact) THEN "skipped"
    ELSE IF Val(watch.contact) \in RefusedContacts THEN "raised"
    ELSE IF ~smtp.up THEN "failed"
    ELSE "sent"

\* The pair's changes of lines 249-259, then the notification of lines 260-272.
\* An alert that leaves the trigger_count of its watch alone.
fire_alert_uncounted(f, slot, watch_id, now, smtp) ==
    [f EXCEPT
        !.alertNew = Append(@,
            [watch_id |-> watch_id,
             location_id |-> slot.location_id,
             court_id |-> slot.court_id,
             court_name |-> slot.court_name,
             slot_time_local |-> slot.slot_time_local,
             slot_time_utc |-> slot.slot_time_utc]),
        !.watches[watch_id].last_triggered_at = Some(now),
        !.mail = Append(@, [watch_id |-> watch_id,
                            result |-> send_email_alert(f.watches[watch_id], smtp)])]

fire_alert(f, slot, watch_id, now, smtp) ==
    [f EXCEPT
        !.alertNew = Append(@,
            [watch_id |-> watch_id,
             location_id |-> slot.location_id,
             court_id |-> slot.court_id,
             court_name |-> slot.court_name,
             slot_time_local |-> slot.slot_time_local,
             slot_time_utc |-> slot.slot_time_utc]),
        !.watches[watch_id].last_triggered_at = Some(now),
        !.watches[watch_id].trigger_count = @ + 1,
        !.mail = Append(@, [watch_id |-> watch_id,
                            result |-> send_email_alert(f.watches[watch_id], smtp)])]

\* A pair whose notification is sent outside any try: its exception propagates.
alert_pair_unguarded_send(f, slot, watch_id, now, smtp) ==
    IF ~match_watch(slot, f.watches[watch_id]) THEN f
    ELSE IF alert_exists(f, watch_id, slot) THEN f
    ELSE IF send_email_alert(f.watches[watch_id], smtp) = "raised"
         THEN Raise(fire_alert(f, slot, watch_id, now, smtp), "ValueError: linefeed in header")
    ELSE fire_alert(f, slot, watch_id, now, smtp)

\* Lines 234-273 for one (slot, watch) pair; an exception of the notification is
\* caught and logged (lines 271-272).
alert_pair(f, slot, watch_id, now, smtp) ==
    IF ~match_watch(slot, f.watches[watch_id]) THEN f
    ELSE IF alert_exists(f, watch_id, slot) THEN f
    ELSE fire_alert(f, slot, watch_id, now, smtp)

RECURSIVE alert_watches(_, _, _, _, _, _)
alert_watches(f, slot, watch_ids, now, smtp, j) ==
    IF j > Len(watch_ids) \/ f.err # None THEN f
    ELSE With(alert_pair(f, slot, watch_ids[j], now, smtp),
              LAMBDA g : alert_watches(g, slot, watch_ids, now, smtp, j + 1))

RECURSIVE alert_slots(_, _, _, _, _, _)
alert_slots(f, slots, watch_ids, now, smtp, i) ==
    IF i > Len(slots) \/ f.err # None THEN f
    ELSE With(alert_watches(f, slots[i], watch_ids, now, smtp, 1),
              LAMBDA g : alert_slots(g, slots, watch_ids, now, smtp, i + 1))

\* The ids of a set of rows in ascending order (the order the query returns).
RECURSIVE SortedIds(_)
SortedIds(ids) ==
    IF ids = {} THEN <<>>
    ELSE LET m == CHOOSE x \in ids : \A y \in ids : x <= y
         IN  <<m>> \o SortedIds(ids \ {m})

\* An evaluation that stops after the first new slot.
create_alerts_first_slot(f, slots, now, smtp) ==
    With(SortedIds({id \in DOMAIN f.watches : f.watches[id].active}),
         LAMBDA watches : alert_slots(f, IF slots = <<>> THEN <<>> ELSE <<slots[1]>>,
                                      watches, now, smtp, 1))

\* An evaluation that fires the first watch for the first new slot, whatever the
\* watch is.
create_alerts_unfiltered(f, slots, now, smtp) ==
    With(SortedIds(DOMAIN f.watches),
         LAMBDA watches : IF slots = <<>> \/ watches = <<>> THEN f
                          ELSE fire_alert(f, slots[1], watches[1], now, smtp))

\* create_alerts: the session after the call; alertNew is what it returns.
create_alerts(f, slots, now, smtp) ==
    With(SortedIds({id \in DOMAIN f.watches : f.watches[id].active}),
         LAMBDA watches : alert_slots(f, slots, watches, now, smtp, 1))

(***************************************************************************)
(* The database (app/models.py, app/db.py) and the commit of a session.    *)
(***************************************************************************)
EmptyTable == [id \in {} |-> None]

EmptyDb ==
    [locations |-> EmptyTable, slots |-> EmptyTable, watches |-> EmptyTable,
     alerts |-> EmptyTable, status |-> None]

\* UniqueConstraint(...) of a table over the keys of its rows.
NoUniqueConstraint(keys) == TRUE
UniqueConstraint(keys) ==
    With(keys, LAMBDA k : \A i, j \in 1..Len(k) : i # j => k[i] # k[j])

RECURSIVE SetToSeq(_)
SetToSeq(S) ==
    IF S = {} THEN <<>>
    ELSE LET x == CHOOSE y \in S : TRUE IN <<x>> \o SetToSeq(S \ {x})

\* The rows of a table, followed by the pending rows.
RowsWith(table, pending) ==
    With(SetToSeq(DOMAIN table),
         LAMBDA ids : [i \in 1..Len(ids) |-> table[ids[i]]] \o pending)

KeysOf(rows, Key(_)) == [i \in 1..Len(rows) |-> Key(rows[i])]

\* INSERT of the pending rows: an integer primary key is max(id) + 1.
InsertAll(table, pending) ==
    LET n == IF DOMAIN table = {} THEN 0 ELSE Max(DOMAIN table)
    IN  [id \in DOMAIN table \cup (n + 1..n + Len(pending)) |->
            IF id \in DOMAIN table THEN table[id] ELSE pending[id - n]]

Without(table, ids) == [id \in DOMAIN table \ ids |-> table[id]]

LocationId(row) == row.id

\* The flush: None when every statement succeeds, else the IntegrityError message.
\* Inserts and updates run before deletes.
flush_error(f) ==
    With(<<RowsWith(f.locs, f.locNew), RowsWith(f.slots, f.slotNew),
           RowsWith(f.alerts, f.alertNew)>>, LAMBDA rows :
        IF ~UniqueConstraint(KeysOf(rows[1], LocationId))
        THEN Some("IntegrityError: UNIQUE constraint failed: locations.id")
        ELSE IF \E i \in 1..Len(rows[1]) : rows[1][i].name = None
        THEN Some("IntegrityError: NOT NULL constraint failed: locations.name")
        ELSE IF ~UniqueConstraint(KeysOf(rows[2], SlotKey))
        THEN Some("IntegrityError: UNIQUE constraint failed: availability_slots")
        ELSE IF ~UniqueConstraint(KeysOf(rows[3], AlertKey))
        THEN Some("IntegrityError: UNIQUE constraint failed: alerts")
        ELSE None)

\* A commit that deletes, with a slot, the alerts fired for it.
commit_dropping_stale_alerts(database, f) ==
    With(flush_error(f), LAMBDA error :
    IF error # None THEN [err |-> error, db |-> database]
    ELSE [err |-> None,
          db |-> [locations |->
                      [id \in DOMAIN f.locs \cup {f.locNew[i].id : i \in 1..Len(f.locNew)} |->
                          IF id \in DOMAIN f.locs THEN f.locs[id]
                          ELSE (CHOOSE r \in Range(f.locNew) : r.id = id)],
                  slots |-> Without(InsertAll(f.slots, f.slotNew), f.slotDel),
                  watches |-> f.watches,
                  alerts |-> Without(InsertAll(f.alerts, f.alertNew),
                                     {a \in DOMAIN f.alerts :
                                         \E id \in f.slotDel :
                                             /\ f.slots[id].court_id = f.alerts[a].court_id
                                             /\ f.slots[id].slot_time_local
                                                    = f.alerts[a].slot_time_local}),
                  status |-> f.status]])

\* db.commit(): [err, db]; the database is unchanged when the flush fails.
commit(database, f) ==
    With(flush_error(f), LAMBDA error :
    IF error # None THEN [err |-> error, db |-> database]
    ELSE [err |-> None,
          db |-> [locations |->
                      [id \in DOMAIN f.locs \cup {f.locNew[i].id : i \in 1..Len(f.locNew)} |->
                          IF id \in DOMAIN f.locs THEN f.locs[id]
                          ELSE (CHOOSE r \in Range(f.locNew) : r.id = id)],
                  slots |-> Without(InsertAll(f.slots, f.slotNew), f.slotDel),
                  watches |-> f.watches,
                  alerts |-> InsertAll(f.alerts, f.alertNew),
                  status |-> f.status]])

(***************************************************************************)
(* State.                                                                  *)
(***************************************************************************)
VARIABLES
    db,                 \* the committed database
    target_sport_id,    \* settings.pickleball_sport_id
    smtp,               \* the mail settings and the state of the mail server
    app,                \* the application: "new", "running" or "stopped"
    pc,                 \* the scraper task: "none", "fetching", "sleeping",
                        \* "cancelled" or "dead" (ended by an exception)
    client,             \* the RecClient of the task: "none", "open" or "closed"
    running,            \* the number of _run_scrape_cycle calls that have not returned
    clock,              \* the number of the current cycle: datetime.now()
    last,               \* what the last cycle did (history)
    call                \* a call of match_watch: its arguments and what it returned

vars == <<db, target_sport_id, smtp, app, pc, client, running, clock, last, call>>

MaxCycles == 4
MaxWatches == 2

NoCycle ==
    [outcome |-> "none", at |-> 0, payload |-> <<>>, repeat |-> FALSE, pre |-> EmptyDb,
     ran_sync |-> FALSE, ran_alerts |-> FALSE, new_records |-> <<>>,
     slotNew |-> <<>>, slotDel |-> {}, alertNew |-> <<>>, mail |-> <<>>,
     exc |-> None]

NoCall == [args |-> <<>>, slot |-> None, watch |-> None, result |-> None]

(***************************************************************************)
(* _run_scrape_cycle                                                       *)
(***************************************************************************)
\* An except branch that keeps the pending changes of the session.
keep_session(database, f) == [f EXCEPT !.err = None]

\* db.rollback(): the pending changes are dropped, the next read sees the database.
rollback(database, f) == NewSession(database)

\* An except branch that reconciles an empty snapshot before it records the error.
record_error_as_empty_snapshot(database, f, msg, now) ==
    commit(database,
           update_status(sync_availability(rollback(database, f), <<>>, None),
                         Some(msg), now)).db

\* The except branches: rollback, update_status(error=str(exc)), commit.
record_error(database, f, msg, now) ==
    commit(database, update_status(rollback(database, f), Some(msg), now)).db

\* The fetch raised an exception whose str() is msg.
FetchFails(msg) ==
    /\ pc = "fetching"
    /\ db' = record_error(db, NewSession(db), msg, clock)
    /\ last' = [NoCycle EXCEPT !.outcome = "fetch_failed", !.at = clock, !.pre = db,
                               !.exc = Some(msg)]
    /\ pc' = "sleeping"
    /\ running' = running - 1
    /\ UNCHANGED <<target_sport_id, smtp, app, client, clock, call>>

\* A try block that evaluates the watches against every slot of the session.
try_persist_alerting_all(database, payload, sport, mail, now) ==
    With(sync_availability(NewSession(database), payload, sport), LAMBDA f1 :
        IF f1.err # None THEN [f |-> f1, ran_alerts |-> FALSE, err |-> f1.err]
        ELSE With(create_alerts(f1, RowsWith(f1.slots, f1.slotNew), now, mail), LAMBDA f2 :
            IF f2.err # None THEN [f |-> f2, ran_alerts |-> TRUE, err |-> f2.err]
            ELSE With(update_status(f2, None, now), LAMBDA f3 :
                [f |-> f3, ran_alerts |-> TRUE, err |-> flush_error(f3)])))

\* The try block of a cycle: [f, ran_alerts, err], f the session when the block
\* ended and err the message of the exception it raised.
try_persist(database, payload, sport, mail, now) ==
    With(sync_availability(NewSession(database), payload, sport), LAMBDA f1 :
        IF f1.err # None THEN [f |-> f1, ran_alerts |-> FALSE, err |-> f1.err]
        ELSE With(create_alerts(f1, f1.new_records, now, mail), LAMBDA f2 :
            IF f2.err # None THEN [f |-> f2, ran_alerts |-> TRUE, err |-> f2.err]
            ELSE With(update_status(f2, None, now), LAMBDA f3 :
                [f |-> f3, ran_alerts |-> TRUE, err |-> flush_error(f3)])))

\* The fetch returned payload: sync_availability, create_alerts, update_status and
\* commit, or the except branch when one of them raises.
FetchReturns(payload) ==
    /\ pc = "fetching"
    /\ \E t \in {try_persist(db, payload, target_sport_id, smtp, clock)} :
           /\ db' = IF t.err = None THEN commit(db, t.f).db
                    ELSE record_error(db, t.f, Val(t.err), clock)
           /\ last' = [outcome |-> IF t.err = None THEN "committed" ELSE "rolled_back",
                       at |-> clock,
                       payload |-> payload,
                       repeat |-> (last.outcome = "committed" /\ last.payload = payload),
                       pre |-> db,
                       ran_sync |-> TRUE,
                       ran_alerts |-> t.ran_alerts,
                       new_records |-> t.f.new_records,
                       slotNew |-> t.f.slotNew,
                       slotDel |-> t.f.slotDel,
                       alertNew |-> t.f.alertNew,
                       mail |-> t.f.mail,
                       exc |-> t.err]
    /\ pc' = "sleeping"
    /\ running' = running - 1
    /\ UNCHANGED <<target_sport_id, smtp, app, client, clock, call>>

\* The database refuses the writes of a cycle (sqlite3.OperationalError, "database
\* is locked"): the commit of the try block raises, or the fetch raised, and then
\* the commit of the except branch raises too.  Nothing catches that: it leaves
\* _run_scrape_cycle and the while loop of _scraper_worker, whose finally closes
\* the client.
DatabaseFails ==
    /\ pc = "fetching"
    /\ db' = db
    /\ last' = [NoCycle EXCEPT !.outcome = "unrecorded", !.at = clock, !.pre = db,
                               !.exc = Some("OperationalError: database is locked")]
    /\ pc' = "dead"
    /\ client' = "closed"
    /\ running' = running - 1
    /\ UNCHANGED <<target_sport_id, smtp, app, clock, call>>

\* A worker that starts the next cycle while the current one is still in progress.
WakeWithoutAwait ==
    /\ pc \in {"fetching", "sleeping"}
    /\ clock < MaxCycles
    /\ pc' = "fetching"
    /\ clock' = clock + 1
    /\ running' = running + 1
    /\ UNCHANGED <<db, target_sport_id, smtp, app, client, last, call>>

\* _scraper_worker: the sleep ends and the next cycle starts.
Wake ==
    /\ pc = "sleeping"
    /\ clock < MaxCycles
    /\ pc' = "fetching"
    /\ clock' = clock + 1
    /\ running' = running + 1
    /\ UNCHANGED <<db, target_sport_id, smtp, app, client, last, call>>

(***************************************************************************)
(* The application's startup and shutdown (app/main.py).                   *)
(***************************************************************************)
\* on_startup with scraper_enabled: the task is created, builds its client and
\* awaits the fetch of its first cycle.
on_startup ==
    /\ app = "new"
    /\ app' = "running"
    /\ pc' = "fetching"
    /\ client' = "open"
    /\ running' = running + 1
    /\ UNCHANGED <<db, target_sport_id, smtp, clock, last, call>>

\* A cancellation that commits the session of the cycle it interrupts.
abandon_cycle_committing(database, f) ==
    commit(database, update_status(sync_availability(f, <<>>, None), None, 0)).db

\* What the database holds when a cycle is given up at its await: the session of
\* the cycle has no pending change, and closing it writes nothing.
abandon_cycle(database, f) == database

\* on_shutdown: task.cancel() and the wait for the task.  The CancelledError is
\* raised at the await the task is suspended on (the fetch or the sleep); it is not
\* an Exception, so no except branch of the cycle runs; the finally of the worker
\* closes the client.  A task that has already ended is left as it is.
on_shutdown ==
    /\ app = "running"
    /\ app' = "stopped"
    /\ IF pc \in {"fetching", "sleeping"}
       THEN /\ pc' = "cancelled"
            /\ client' = "closed"
            /\ running' = IF pc = "fetching" THEN running - 1 ELSE running
            /\ db' = IF pc = "fetching" THEN abandon_cycle(db, NewSession(db)) ELSE db
       ELSE UNCHANGED <<pc, client, running, db>>
    /\ UNCHANGED <<target_sport_id, smtp, clock, last, call>>

(***************************************************************************)
(* The watch API (app/main.py).                                            *)
(***************************************************************************)
\* Lines 320-330 of main.py: the row create_watch adds; trigger_count takes the
\* default of its column.
WatchRule(location_id, court_query, time_from, contact) ==
    [location_id |-> location_id,
     court_query |-> court_query,
     target_date |-> None,
     time_from |-> time_from,
     time_to |-> None,
     contact |-> contact,
     active |-> TRUE,
     trigger_count |-> 0,
     last_triggered_at |-> None]

create_watch(location_id, court_query, time_from, contact) ==
    /\ app = "running"
    /\ location_id \in DOMAIN db.locations
    /\ Cardinality(DOMAIN db.watches) < MaxWatches
    /\ db' = [db EXCEPT !.watches = InsertAll(@,
                <<WatchRule(location_id, court_query, time_from, contact)>>)]
    /\ UNCHANGED <<target_sport_id, smtp, app, pc, client, running, clock, last, call>>

toggle_watch(watch_id) ==
    /\ app = "running"
    /\ watch_id \in DOMAIN db.watches
    /\ db' = [db EXCEPT !.watches[watch_id].active = ~@]
    /\ UNCHANGED <<target_sport_id, smtp, app, pc, client, running, clock, last, call>>

(***************************************************************************)
(* The watch API as its client sees it: each request is answered, with 200 *)
(* or with the 404 of the HTTPException, and call holds the request, its   *)
(* number, the answer, the tables before it and the request before it.     *)
(***************************************************************************)
MaxCalls == 3

CallNumber == IF call.args = <<>> THEN 0 ELSE call.args[3]

Response(name, argument, status) ==
    [args |-> <<name, argument, CallNumber + 1>>, slot |-> None, watch |-> None,
     result |-> Some(status), before |-> db, prev |-> call]

\* A create_watch that does not look the location up.
post_watchers_unchecked(location_id, contact) ==
    /\ app = "running"
    /\ CallNumber < MaxCalls
    /\ db' = [db EXCEPT !.watches =
                 InsertAll(@, <<WatchRule(location_id, None, None, contact)>>)]
    /\ call' = Response("create_watch", location_id, 200)
    /\ UNCHANGED <<target_sport_id, smtp, app, pc, client, running, clock, last>>

\* POST /api/watchers, lines 310-334.
post_watchers(location_id, contact) ==
    /\ app = "running"
    /\ CallNumber < MaxCalls
    /\ IF location_id \notin DOMAIN db.locations
       THEN /\ db' = db
            /\ call' = Response("create_watch", location_id, 404)
       ELSE /\ db' = [db EXCEPT !.watches =
                        InsertAll(@, <<WatchRule(location_id, None, None, contact)>>)]
            /\ call' = Response("create_watch", location_id, 200)
    /\ UNCHANGED <<target_sport_id, smtp, app, pc, client, running, clock, last>>

\* A toggle that only ever pauses.
post_watchers_toggle_pausing(watch_id) ==
    /\ app = "running"
    /\ CallNumber < MaxCalls
    /\ IF watch_id \notin DOMAIN db.watches
       THEN /\ db' = db
            /\ call' = Response("toggle_watch", watch_id, 404)
       ELSE /\ db' = [db EXCEPT !.watches[watch_id].active = FALSE]
            /\ call' = Response("toggle_watch", watch_id, 200)
    /\ UNCHANGED <<target_sport_id, smtp, app, pc, client, running, clock, last>>

\* POST /api/watchers/{watch_id}/toggle, lines 337-350.
post_watchers_toggle(watch_id) ==
    /\ app = "running"
    /\ CallNumber < MaxCalls
    /\ IF watch_id \notin DOMAIN db.watches
       THEN /\ db' = db
            /\ call' = Response("toggle_watch", watch_id, 404)
       ELSE /\ db' = [db EXCEPT !.watches[watch_id].active = ~@]
            /\ call' = Response("toggle_watch", watch_id, 200)
    /\ UNCHANGED <<target_sport_id, smtp, app, pc, client, running, clock, last>>

\* DELETE /api/watchers/{watch_id}, lines 353-361: db.delete(watch) also deletes
\* the alerts of the watch (the cascade of WatchRule.alerts).
delete_watchers(watch_id) ==
    /\ app = "running"
    /\ CallNumber < MaxCalls
    /\ IF watch_id \notin DOMAIN db.watches
       THEN /\ db' = db
            /\ call' = Response("delete_watch", watch_id, 404)
       ELSE /\ db' = [db EXCEPT
                        !.watches = Without(@, {watch_id}),
                        !.alerts = Without(@, {a \in DOMAIN db.alerts :
                                                  db.alerts[a].watch_id = watch_id})]
            /\ call' = Response("delete_watch", watch_id, 200)
    /\ UNCHANGED <<target_sport_id, smtp, app, pc, client, running, clock, last>>

(***************************************************************************)
(* A cycle and a DELETE request side by side.  The cycle runs in the       *)
(* thread of the event loop and the handler in a thread of the pool, each  *)
(* with its own session on the one database.  A session reads outside any  *)
(* transaction and writes in the transaction of its commit, so a request   *)
(* can commit between the reads of a cycle and its commit, and a cycle can *)
(* commit between the reads of a request and its commit.  `call` holds the *)
(* two sessions in flight: cycle and request.                              *)
(***************************************************************************)
RaceCall ==
    [args |-> <<>>, slot |-> None, watch |-> None, result |-> None,
     cycle |-> None, request |-> None]

\* The watches the session of the cycle has modified: each is an UPDATE ... WHERE
\* id = ? of its flush, and SQLAlchemy raises StaleDataError when one matches no row.
modified_watches(pre, f) == {w \in DOMAIN f.watches : f.watches[w] # pre.watches[w]}

\* The commit of the cycle's session on the database as it is now: the rows of the
\* locations, slots and status, which the cycle alone writes, the changed columns
\* of the watches it fired, and the INSERT of its alerts.
commit_over(database, pre, f) ==
    With(commit(pre, f).db, LAMBDA own :
        [locations |-> own.locations,
         slots |-> own.slots,
         watches |-> [w \in DOMAIN database.watches |->
                         IF w \in modified_watches(pre, f)
                         THEN [database.watches[w] EXCEPT
                                 !.trigger_count = f.watches[w].trigger_count,
                                 !.last_triggered_at = f.watches[w].last_triggered_at]
                         ELSE database.watches[w]],
         alerts |-> InsertAll(database.alerts, f.alertNew),
         status |-> own.status])

\* Lines 131-133: sync_availability, create_alerts and update_status have run on
\* what the session read; the commit is still to come.
persist_cycle(payload) ==
    /\ pc = "fetching"
    /\ call.cycle = None
    /\ \E t \in {try_persist(db, payload, target_sport_id, smtp, clock)} :
           call' = [call EXCEPT !.cycle = Some([t |-> t, payload |-> payload, pre |-> db])]
    /\ pc' = "committing"
    /\ UNCHANGED <<db, target_sport_id, smtp, app, client, running, clock, last>>

\* Lines 134-140: db.commit(), or the except branch when the try block raised or
\* the flush finds a watch it updates gone.
commit_cycle ==
    /\ pc = "committing"
    /\ call.cycle # None
    /\ \E c \in {Val(call.cycle)} :
       \E err \in {IF c.t.err # None THEN c.t.err
                   ELSE IF modified_watches(c.pre, c.t.f) \subseteq DOMAIN db.watches THEN None
                   ELSE Some("StaleDataError: UPDATE statement on table 'watch_rules'")} :
           /\ db' = IF err = None THEN commit_over(db, c.pre, c.t.f)
                    ELSE record_error(db, c.t.f, Val(err), clock)
           /\ last' = [outcome |-> IF err = None THEN "committed" ELSE "rolled_back",
                       at |-> clock,
                       payload |-> c.payload,
                       repeat |-> (last.outcome = "committed" /\ last.payload = c.payload),
                       pre |-> db,
                       ran_sync |-> TRUE,
                       ran_alerts |-> c.t.ran_alerts,
                       new_records |-> c.t.f.new_records,
                       slotNew |-> c.t.f.slotNew,
                       slotDel |-> c.t.f.slotDel,
                       alertNew |-> c.t.f.alertNew,
                       mail |-> c.t.f.mail,
                       exc |-> err]
    /\ call' = [call EXCEPT !.cycle = None]
    /\ pc' = "sleeping"
    /\ running' = running - 1
    /\ UNCHANGED <<target_sport_id, smtp, app, client, clock>>

\* Lines 356-359 of delete_watch: db.get(WatchRule, watch_id) and db.delete(watch),
\* which loads watch.alerts for the cascade.
delete_watch_loads(watch_id) ==
    /\ app = "running"
    /\ call.request = None
    /\ watch_id \in DOMAIN db.watches
    /\ call' = [call EXCEPT !.request =
                   Some([watch_id |-> watch_id,
                         alerts |-> {a \in DOMAIN db.alerts :
                                        db.alerts[a].watch_id = watch_id}])]
    /\ UNCHANGED <<db, target_sport_id, smtp, app, pc, client, running, clock, last>>

\* Line 360 of delete_watch: db.commit() deletes the alerts the session loaded and
\* the watch.  SQLite does not enforce the foreign key of alerts.watch_id.
delete_watch_commits ==
    /\ call.request # None
    /\ db' = [db EXCEPT !.watches = Without(@, {Val(call.request).watch_id}),
                        !.alerts = Without(@, Val(call.request).alerts)]
    /\ call' = [call EXCEPT !.request = None]
    /\ UNCHANGED <<target_sport_id, smtp, app, pc, client, running, clock, last>>

(***************************************************************************)
(* _dedupe_slots (main.py, lines 216-249).  In the rows it is given the    *)
(* court id is a text like the court name, so that sorted() can compare    *)
(* the two.                                                                *)
(***************************************************************************)
\* ord() of the characters the court names and ids are made of.
Ord(ch) ==
    CASE ch = "1" -> 49
      [] ch = "2" -> 50
      [] ch = "A" -> 65
      [] ch = "c" -> 99
      [] ch = "d" -> 100

\* a < b and a <= b of two str.
RECURSIVE TextLess(_, _)
TextLess(a, b) ==
    IF b = <<>> THEN FALSE
    ELSE IF a = <<>> THEN TRUE
    ELSE IF Ord(a[1]) # Ord(b[1]) THEN Ord(a[1]) < Ord(b[1])
    ELSE TextLess(Tail(a), Tail(b))

\* A naive datetime as a number, for the comparisons of sorted().
Stamp(dt) == dt.date * 1440 + dt.tod

\* s.court_name or s.court_id or ""
NameOrId(slot) ==
    IF TruthyText(slot.court_name) THEN Val(slot.court_name) ELSE slot.court_id

\* sorted(items, key=...): stable, so an item goes behind the items whose key is
\* not greater than its own.
RECURSIVE InsertByName(_, _)
InsertByName(slot, ordered) ==
    IF ordered = <<>> THEN <<slot>>
    ELSE IF TextLess(NameOrId(slot), NameOrId(ordered[1])) THEN <<slot>> \o ordered
    ELSE <<ordered[1]>> \o InsertByName(slot, Tail(ordered))

RECURSIVE SortedByName(_)
SortedByName(items) ==
    IF items = <<>> THEN <<>>
    ELSE InsertByName(items[Len(items)], SortedByName(SubSeq(items, 1, Len(items) - 1)))

\* The keys of grouped, ascending.
RECURSIVE SortedStamps(_)
SortedStamps(stamps) ==
    IF stamps = {} THEN <<>>
    ELSE LET first == CHOOSE x \in stamps : \A y \in stamps : Stamp(x) <= Stamp(y)
         IN  <<first>> \o SortedStamps(stamps \ {first})

\* A response that counts and names the first court of a group only.
group_response_first_court(stamp, items) ==
    LET ordered == SortedByName(items)
    IN  [court_id |-> ordered[1].court_id,
         court_name |-> ordered[1].court_name,
         slot_time_local |-> stamp,
         court_count |-> 1,
         court_names |-> <<NameOrId(ordered[1])>>]

\* Lines 231-248: the response of the slots grouped under one stamp.  The name of
\* a response over several courts is f"{names[0]} (+{n} more)", here the pair.
group_response(stamp, items) ==
    LET ordered == SortedByName(items)
        names == SelectSeq([i \in 1..Len(ordered) |-> NameOrId(ordered[i])],
                           LAMBDA name : name # <<>>)
    IN  [court_id |-> ordered[1].court_id,
         court_name |-> IF Len(names) > 1 THEN Some(<<names[1], Len(names) - 1>>)
                        ELSE ordered[1].court_name,
         slot_time_local |-> stamp,
         court_count |-> Len(ordered),
         court_names |-> IF names = <<>> THEN None ELSE Some(names)]

dedupe_slots(slots) ==
    LET stamps == SortedStamps({slots[i].slot_time_local : i \in 1..Len(slots)})
    IN  [k \in 1..Len(stamps) |->
            group_response(stamps[k],
                           SelectSeq(slots, LAMBDA slot : slot.slot_time_local = stamps[k]))]

\* _filter_slots, lines 196-211, for one slot: none of the `continue`s is taken.
\* The court query is compared with the name, or with the id when the slot has no
\* name, both as text.
slot_passes(slot, day, time_from, time_to, sport_filter, court_query) ==
    /\ ~(TruthyStr(sport_filter) /\ slot.sport_id # sport_filter)
    /\ ~TruthyText(court_query)
           \/ Contains(Lower(Val(court_query)), Lower(NameOrId(slot)))
    /\ ~(day # None /\ slot.slot_time_local.date # Val(day))
    /\ ~(time_from # None /\ slot.slot_time_local.tod < Val(time_from))
    /\ ~(time_to # None /\ slot.slot_time_local.tod > Val(time_to))

filter_slots(slots, day, time_from, time_to, sport_filter, court_query) ==
    SelectSeq(slots, LAMBDA slot :
                  slot_passes(slot, day, time_from, time_to, sport_filter, court_query))

\* sorted(location.slots, key=slot_time_local): stable, over the rows in id order.
RECURSIVE ordered_slots(_, _)
ordered_slots(table, ids) ==
    IF ids = {} THEN <<>>
    ELSE LET first == CHOOSE x \in ids : \A y \in ids :
                          \/ Stamp(table[x].slot_time_local) < Stamp(table[y].slot_time_local)
                          \/ /\ Stamp(table[x].slot_time_local) = Stamp(table[y].slot_time_local)
                             /\ x <= y
         IN  <<table[first]>> \o ordered_slots(table, ids \ {first})

\* api_locations without query parameters, lines 262-276: the slots of each
\* location that are handed to _dedupe_slots.
api_locations(database, sport_filter) ==
    [loc \in DOMAIN database.locations |->
        filter_slots(ordered_slots(database.slots,
                                   {id \in DOMAIN database.slots :
                                       database.slots[id].location_id = loc}),
                     None, None, None, sport_filter, None)]

\* _dedupe_slots on the filtered slots drawn in InitListing.
CallDedupeSlots ==
    /\ call.result = None
    /\ call' = [call EXCEPT !.result = Some(dedupe_slots(call.args[1]))]
    /\ UNCHANGED <<db, target_sport_id, smtp, app, pc, client, running, clock, last>>

\* A call of match_watch on the arguments drawn in InitMatch; the function assigns
\* to neither argument.
CallMatchWatch ==
    /\ call.result = None
    /\ call' = [call EXCEPT !.result = Some(match_watch(call.slot, call.watch))]
    /\ UNCHANGED <<db, target_sport_id, smtp, app, pc, client, running, clock, last>>

\* The duration resolution of lines 113-130 on the court and the location drawn in
\* InitDuration.
CallResolveDuration ==
    /\ call.result = None
    /\ call' = [call EXCEPT !.result = Some(resolve_duration(call.args[1], call.args[2]))]
    /\ UNCHANGED <<db, target_sport_id, smtp, app, pc, client, running, clock, last>>

\* upsert_location on the persisted row and the payload drawn in InitLocation, in a
\* session that has loaded the row.
CallUpsertLocation ==
    /\ call.result = None
    /\ call' = [call EXCEPT !.result =
                   Some(upsert_location(
                       NewSession([EmptyDb EXCEPT !.locations =
                                      [id \in {call.args[1].id} |-> call.args[1]]]),
                       call.args[2]))]
    /\ UNCHANGED <<db, target_sport_id, smtp, app, pc, client, running, clock, last>>

\* A delay that is the configured value as it is.
interval_unfloored(scrape_interval_seconds) == scrape_interval_seconds

\* Line 146: interval = max(15, int(settings.scrape_interval_seconds)); the setting
\* is an int, which int() returns as it is.
interval(scrape_interval_seconds) == Max({15, scrape_interval_seconds})

\* Lines 146-150: the worker computes the delay it gives to asyncio.sleep after
\* every cycle, from the setting drawn in InitInterval.
CallInterval ==
    /\ call.result = None
    /\ call' = [call EXCEPT !.result = Some(interval(call.args[1]))]
    /\ UNCHANGED <<db, target_sport_id, smtp, app, pc, client, running, clock, last>>

(***************************************************************************)
(* Inputs: snapshots of the provider.                                      *)
(***************************************************************************)
LocIds == {"loc-1", "loc-2"}

Sport(id) == [sportId |-> Some(id), id |-> Some(id)]

Court(id, name, sports, max_time, raw_slots) ==
    [id |-> id, name |-> name, displayName |-> Missing, sports |-> Some(sports),
     allowedMinutes |-> Missing, maxReservationTime |-> max_time,
     availableSlots |-> Some(raw_slots)]

Court1(raw_slots) ==
    Court(Some("court-1"), Some(<<"A", "1">>), <<Sport(PICKLEBALL)>>, Missing, raw_slots)
Court2(raw_slots) ==
    Court(Some("court-2"), Some(<<"B", "2">>), <<Sport(PICKLEBALL)>>, Missing, raw_slots)
TennisCourt(raw_slots) ==
    Court(Some("court-2"), Some(<<"B", "2">>), <<Sport(TENNIS)>>, Missing, raw_slots)
NoIdCourt(raw_slots) ==
    Court(Missing, Some(<<"A", "1">>), <<Sport(PICKLEBALL)>>, Missing, raw_slots)
\* maxReservationTime "1:30": two pieces, so the unpacking into h, m, s raises.
BadTimeCourt(raw_slots) ==
    Court(Some("court-2"), Some(<<"B", "2">>), <<Sport(PICKLEBALL)>>,
          Some(StrTime(<<Some(1), Some(30)>>)), raw_slots)

LocationBlock(id, courts) ==
    [location |-> Some([id |-> Some(id), name |-> Some("Mission Dolores Courts"),
                        formattedAddress |-> Some("19th & Dolores St"),
                        timezone |-> Some("America/Los_Angeles"),
                        images |-> Missing, maxReservationTime |-> Missing,
                        courts |-> Some(courts)])]

R9 == "2025-10-27 09:00:00"
R9b == "2025-10-27 9:00:00"
R18 == "2025-10-27 18:00:00"
RBad == "2025-10-27T09:00:00"

\* The court lists of a location block: none, one slot, two slots, a timestamp
\* given twice (the same string, or the same time written differently), a
\* malformed timestamp, two courts, a court listed twice, courts without an id or
\* of another sport, a court whose maxReservationTime does not parse, and a
\* malformed timestamp next to a timestamp given twice.
CourtLists ==
    {<<>>,
     <<Court1(<<R9>>)>>,
     <<Court1(<<R9, R18>>)>>,
     <<Court1(<<R9, R9>>)>>,
     <<Court1(<<R9b, R9>>)>>,
     <<Court1(<<RBad, R18>>)>>,
     <<Court1(<<R9>>), Court2(<<R9>>)>>,
     <<Court1(<<R9>>), Court1(<<R9>>)>>,
     <<NoIdCourt(<<R9>>), TennisCourt(<<R18>>), Court1(<<R18>>)>>,
     <<Court1(<<R18>>), BadTimeCourt(<<R9>>)>>,
     <<NoIdCourt(<<R18>>), Court1(<<RBad, R9, R9>>)>>}

OtherCourtLists == {<<Court2(<<R18>>)>>}

\* A snapshot: an optional block of loc-1 followed by an optional block of loc-2.
Snapshots ==
    {a \o b : a \in {<<>>} \cup {<<LocationBlock("loc-1", cl)>> : cl \in CourtLists},
              b \in {<<>>} \cup {<<LocationBlock("loc-2", cl)>> : cl \in OtherCourtLists}}

SmallSnapshots ==
    {<<LocationBlock("loc-1", <<Court1(<<R18>>)>>)>>,
     <<LocationBlock("loc-1", <<Court1(<<R9, R9>>)>>)>>,
     <<LocationBlock("loc-1", <<Court1(<<R9>>), Court2(<<R9, R18>>)>>)>>,
     <<LocationBlock("loc-1", <<Court1(<<R9>>), BadTimeCourt(<<R9>>)>>)>>}

FetchErrors == {"", "ReadTimeout"}
SportSettings == {Some(PICKLEBALL), None}

\* The watches the API is asked to create: (location_id, court_query, time_from).
WatchRequests ==
    {<<"loc-1", None, None>>, <<"loc-1", Some(<<"a">>), None>>,
     <<"loc-1", None, Some(600)>>, <<"loc-2", None, None>>}

\* The contact of a watch: none, an address, an address with a line feed in it.
Contacts == {None, Some("a@b.c")} \cup {Some(c) : c \in RefusedContacts}

\* The arguments of match_watch.
MatchSlots ==
    [location_id : LocIds,
     court_id : {"court-1"},
     court_name : {None, Some(<<>>), Some(<<"A", "b">>), Some(<<"b">>)},
     slot_time_local : {DT(27, 540), DT(27, 1080), DT(28, 540)}]

MatchWatches ==
    [active : BOOLEAN,
     location_id : LocIds,
     court_query : {None, Some(<<>>), Some(<<"a", "B">>), Some(<<"B">>), Some(<<"b", "a">>)},
     target_date : {None, Some(27)},
     time_from : {None, Some(540), Some(600)},
     time_to : {None, Some(540), Some(1000)}]

(***************************************************************************)
(* Specifications.                                                         *)
(***************************************************************************)
\* The application has started: the database is empty and the task awaits the fetch
\* of its first cycle.  Mail is off, as in app/config.py.
Init ==
    /\ db = EmptyDb
    /\ target_sport_id \in SportSettings
    /\ smtp = SmtpDefault
    /\ app = "running"
    /\ pc = "fetching"
    /\ client = "open"
    /\ running = 1
    /\ clock = 1
    /\ last = NoCycle
    /\ call = NoCall

\* The worker and the watch API.
Next ==
    \/ \E msg \in FetchErrors : FetchFails(msg)
    \/ \E payload \in SmallSnapshots : FetchReturns(payload)
    \/ Wake
    \/ \E w \in WatchRequests : create_watch(w[1], w[2], w[3], None)
    \/ \E w \in 1..MaxWatches : toggle_watch(w)

Spec == Init /\ [][Next]_vars

\* The worker alone, over the wider set of snapshots.
NextSync ==
    \/ \E msg \in FetchErrors : FetchFails(msg)
    \/ \E payload \in Snapshots : FetchReturns(payload)
    \/ Wake

SpecSync == Init /\ [][NextSync]_vars

\* The worker with mail switched on, the mail server up or down, and watches whose
\* contact is unset, an address, or an address the message header refuses.
NotifySnapshots ==
    {<<LocationBlock("loc-1", <<Court1(<<R18>>)>>)>>,
     <<LocationBlock("loc-1", <<Court1(<<R9>>), Court2(<<R9, R18>>)>>)>>}

InitNotify ==
    /\ db = EmptyDb
    /\ target_sport_id = Some(PICKLEBALL)
    /\ smtp \in [enabled : {TRUE}, host : {Some("smtp.example.com")}, up : BOOLEAN]
    /\ app = "running"
    /\ pc = "fetching"
    /\ client = "open"
    /\ running = 1
    /\ clock = 1
    /\ last = NoCycle
    /\ call = NoCall

NextNotify ==
    \/ \E payload \in NotifySnapshots : FetchReturns(payload)
    \/ Wake
    \/ \E c \in Contacts : create_watch("loc-1", None, None, c)

SpecNotify == InitNotify /\ [][NextNotify]_vars

\* The application from its start to its shutdown, over a database that may refuse
\* the writes of a cycle.
WorkerSnapshots ==
    {<<>>,
     <<LocationBlock("loc-1", <<Court1(<<R9>>)>>)>>,
     <<LocationBlock("loc-1", <<Court1(<<R9, R9>>)>>)>>}

InitWorker ==
    /\ db = EmptyDb
    /\ target_sport_id = Some(PICKLEBALL)
    /\ smtp = SmtpDefault
    /\ app = "new"
    /\ pc = "none"
    /\ client = "none"
    /\ running = 0
    /\ clock = 1
    /\ last = NoCycle
    /\ call = NoCall

NextWorker ==
    \/ on_startup
    \/ \E msg \in FetchErrors : FetchFails(msg)
    \/ \E payload \in WorkerSnapshots : FetchReturns(payload)
    \/ DatabaseFails
    \/ Wake
    \/ on_shutdown

SpecWorker == InitWorker /\ [][NextWorker]_vars

\* The worker over snapshots that hold one slot of one court, whose name, sports
\* and durations change from snapshot to snapshot.
BackfillNames == {Missing, Some(<<>>), Some(<<"A", "1">>), Some(<<"B", "2">>)}
BackfillSports == {<<>>, <<Sport(PICKLEBALL)>>, <<Sport(TENNIS), Sport(PICKLEBALL)>>}
\* (allowed minutes, maxReservationTime of the location): 60 by default, 30, 90,
\* and the number 0.5 that int() truncates to 0.
BackfillDurations ==
    {<<Missing, Missing>>, <<Some(<<30>>), Missing>>, <<Some(<<30, 90>>), Missing>>,
     <<Missing, Some(FloatTime(5))>>}

BackfillSnapshot(name, sports, duration) ==
    <<[location |-> Some([Val(LocationBlock("loc-1", <<
          [Court(Some("court-1"), name, sports, Missing, <<R9>>)
              EXCEPT !.allowedMinutes = duration[1]]>>).location)
          EXCEPT !.maxReservationTime = duration[2]])]>>

BackfillSnapshots ==
    {BackfillSnapshot(name, sports, duration) :
        name \in BackfillNames, sports \in BackfillSports, duration \in BackfillDurations}

NextBackfill ==
    \/ \E payload \in BackfillSnapshots : FetchReturns(payload)
    \/ Wake

SpecBackfill == Init /\ [][NextBackfill]_vars

\* The worker over snapshots whose first court declares its sports in every shape
\* the filter distinguishes; a second court, of the target sport, comes and goes.
SportLists ==
    {<<>>, <<Sport(PICKLEBALL)>>, <<Sport(TENNIS)>>, <<Sport(TENNIS), Sport(PICKLEBALL)>>,
     <<[sportId |-> Some(TENNIS), id |-> Some(PICKLEBALL)]>>,
     <<[sportId |-> Some(PICKLEBALL), id |-> Some(TENNIS)]>>,
     <<[sportId |-> Missing, id |-> Some(PICKLEBALL)]>>,
     <<[sportId |-> Some(""), id |-> Some(PICKLEBALL)]>>,
     <<[sportId |-> None, id |-> Some(TENNIS)]>>,
     <<[sportId |-> Missing, id |-> Missing], Sport(PICKLEBALL)>>}

SportCourt(sports) ==
    Court(Some("court-1"), Some(<<"A", "1">>), sports, Missing, <<R9, R18>>)

SportSnapshots ==
    UNION {{<<LocationBlock("loc-1", <<SportCourt(sports)>>)>>,
            <<LocationBlock("loc-1", <<SportCourt(sports), Court2(<<R18>>)>>)>>} :
           sports \in SportLists}
    \cup {<<LocationBlock("loc-1", <<[SportCourt(<<>>) EXCEPT !.sports = Missing]>>)>>}

NextSport ==
    \/ \E payload \in SportSnapshots : FetchReturns(payload)
    \/ Wake

SpecSport == Init /\ [][NextSport]_vars

\* The duration resolution alone, over the allowed-duration list of the court and
\* the maxReservationTime of the court and of the location.
AllowedLists == {Missing, Some(<<>>), Some(<<30>>), Some(<<30, 90, 60>>), Some(<<0>>)}

\* Absent, null, "", "1:30:00", "0:45:30", "0:00:00", "0:00:29", "1:30", "1:x:00", "90",
\* 90, 0, -5, 0.5, 90.5.
ReservationTimes ==
    {Missing, None, Some(StrTime(<<>>)),
     Some(StrTime(<<Some(1), Some(30), Some(0)>>)),
     Some(StrTime(<<Some(0), Some(45), Some(30)>>)),
     Some(StrTime(<<Some(0), Some(0), Some(0)>>)),
     Some(StrTime(<<Some(0), Some(0), Some(29)>>)),
     Some(StrTime(<<Some(1), Some(30)>>)),
     Some(StrTime(<<Some(1), None, Some(0)>>)),
     Some(StrTime(<<Some(90)>>)),
     Some(IntTime(90)), Some(IntTime(0)), Some(IntTime(-5)),
     Some(FloatTime(5)), Some(FloatTime(905))}

InitDuration ==
    /\ db = EmptyDb
    /\ target_sport_id = None
    /\ smtp = SmtpDefault
    /\ app = "running"
    /\ client = "open"
    /\ running = 0
    /\ pc = "sleeping"
    /\ clock = MaxCycles
    /\ last = NoCycle
    /\ \E allowed \in AllowedLists, court_time \in ReservationTimes,
          location_time \in ReservationTimes :
           call = [args |-> <<[Court1(<<R9>>) EXCEPT !.allowedMinutes = allowed,
                                                    !.maxReservationTime = court_time],
                              [Val(LocationBlock("loc-1", <<>>).location)
                                  EXCEPT !.maxReservationTime = location_time]>>,
                   slot |-> None, watch |-> None, result |-> None]

NextDuration == CallResolveDuration

SpecDuration == InitDuration /\ [][NextDuration]_vars

\* upsert_location alone, over a persisted Location row and a location payload
\* whose fields are absent, null, empty or filled.
LocationRows ==
    [id : {"loc-1"},
     name : {Some("Old Courts")},
     address : {None, Some("1 Old St")},
     timezone : {None, Some("America/Los_Angeles")},
     image_url : {None, Some("old.jpg")}]

LocationPayloads ==
    [id : {Some("loc-1")},
     name : {Missing, None, Some(""), Some("New Courts")},
     formattedAddress : {Missing, None, Some(""), Some("2 New St")},
     timezone : {Missing, None, Some(""), Some("UTC")},
     images : {Missing, None, Some([thumbnail |-> Missing]), Some([thumbnail |-> None]),
               Some([thumbnail |-> Some("")]), Some([thumbnail |-> Some("new.jpg")])},
     maxReservationTime : {Missing},
     courts : {Some(<<>>)}]

InitLocation ==
    /\ db = EmptyDb
    /\ target_sport_id = None
    /\ smtp = SmtpDefault
    /\ app = "running"
    /\ client = "open"
    /\ running = 0
    /\ pc = "sleeping"
    /\ clock = MaxCycles
    /\ last = NoCycle
    /\ \E row \in LocationRows, payload \in LocationPayloads :
           call = [args |-> <<row, payload>>, slot |-> None, watch |-> None,
                   result |-> None]

NextLocation == CallUpsertLocation

SpecLocation == InitLocation /\ [][NextLocation]_vars

\* The delay of the worker alone, over the values of scrape_interval_seconds.
MaxInterval == 120
IntervalSettings == (0 - MaxInterval)..MaxInterval

InitInterval ==
    /\ db = EmptyDb
    /\ target_sport_id = None
    /\ smtp = SmtpDefault
    /\ app = "running"
    /\ client = "open"
    /\ running = 0
    /\ pc = "sleeping"
    /\ clock = MaxCycles
    /\ last = NoCycle
    /\ \E seconds \in IntervalSettings :
           call = [args |-> <<seconds>>, slot |-> None, watch |-> None, result |-> None]

NextInterval == CallInterval

SpecInterval == InitInterval /\ [][NextInterval]_vars

\* The worker with mail switched off or on, with and without a host, and watches
\* with and without a contact.
MailSettings ==
    [enabled : BOOLEAN, host : {None, Some(""), Some("smtp.example.com")}, up : {TRUE}]

MailContacts == {None, Some(""), Some("a@b.c")}

InitMail ==
    /\ db = EmptyDb
    /\ target_sport_id = Some(PICKLEBALL)
    /\ smtp \in MailSettings
    /\ app = "running"
    /\ pc = "fetching"
    /\ client = "open"
    /\ running = 1
    /\ clock = 1
    /\ last = NoCycle
    /\ call = NoCall

NextMail ==
    \/ \E payload \in NotifySnapshots : FetchReturns(payload)
    \/ Wake
    \/ \E c \in MailContacts : create_watch("loc-1", None, None, c)

SpecMail == InitMail /\ [][NextMail]_vars

\* The worker and the clients of the watch API: watches are created for a known
\* and for an unknown location, and toggled and deleted by ids that exist or not.
ApiLocations == {"loc-1", "missing"}
ApiWatchIds == 1..MaxCalls

InitApi ==
    /\ db = EmptyDb
    /\ target_sport_id = Some(PICKLEBALL)
    /\ smtp = SmtpDefault
    /\ app = "running"
    /\ pc = "fetching"
    /\ client = "open"
    /\ running = 1
    /\ clock = 1
    /\ last = NoCycle
    /\ call = NoCall

NextApi ==
    \/ \E payload \in NotifySnapshots : FetchReturns(payload)
    \/ Wake
    \/ \E location_id \in ApiLocations : post_watchers(location_id, None)
    \/ \E watch_id \in ApiWatchIds : post_watchers_toggle(watch_id)
    \/ \E watch_id \in ApiWatchIds : delete_watchers(watch_id)

SpecApi == InitApi /\ [][NextApi]_vars

\* _dedupe_slots alone, over the filtered slots of a location: rows of distinct
\* (court, time), in the order of their times as api_locations sorts them.
MaxSlots == 3

ListedSlots ==
    [court_id : {<<"c", "1">>, <<"c", "2">>},
     court_name : {None, Some(<<>>), Some(<<"A">>), Some(<<"d">>)},
     slot_time_local : {DT(27, 540), DT(27, 1080), DT(28, 540)}]

FilteredSlots ==
    {slots \in UNION {[1..n -> ListedSlots] : n \in 0..MaxSlots} :
        \A i, j \in 1..Len(slots) :
            i < j => /\ Stamp(slots[i].slot_time_local) <= Stamp(slots[j].slot_time_local)
                     /\ <<slots[i].court_id, slots[i].slot_time_local>>
                            # <<slots[j].court_id, slots[j].slot_time_local>>}

InitListing ==
    /\ db = EmptyDb
    /\ target_sport_id = None
    /\ smtp = SmtpDefault
    /\ app = "running"
    /\ client = "open"
    /\ running = 0
    /\ pc = "sleeping"
    /\ clock = MaxCycles
    /\ last = NoCycle
    /\ \E slots \in FilteredSlots :
           call = [args |-> <<slots>>, slot |-> None, watch |-> None, result |-> None]

NextListing == CallDedupeSlots

SpecListing == InitListing /\ [][NextListing]_vars

\* The worker with mail switched on, over the snapshots some of which its commit
\* refuses, and watches with a contact.
NextResend ==
    \/ \E payload \in SmallSnapshots : FetchReturns(payload)
    \/ Wake
    \/ create_watch("loc-1", None, None, Some("a@b.c"))

SpecResend == InitNotify /\ [][NextResend]_vars

\* The worker and the watch API over snapshots in which a slot stays while another
\* one comes and goes.
WatchSnapshots ==
    {<<LocationBlock("loc-1", <<Court1(<<R9>>)>>)>>,
     <<LocationBlock("loc-1", <<Court1(<<R9, R18>>)>>)>>}

NextWatch ==
    \/ \E payload \in WatchSnapshots : FetchReturns(payload)
    \/ Wake
    \/ \E w \in WatchRequests : create_watch(w[1], w[2], w[3], None)
    \/ \E w \in 1..MaxWatches : toggle_watch(w)

SpecWatch == Init /\ [][NextWatch]_vars

\* The worker over snapshots in which each of the two locations is absent, has a
\* court of the target sport, or has a court of another sport only; loc-1 may give
\* a timestamp twice.  The API creates watches on either location.
KeepSnapshots ==
    {a \o b : a \in {<<>>, <<LocationBlock("loc-1", <<Court1(<<R9>>)>>)>>,
                     <<LocationBlock("loc-1", <<TennisCourt(<<R9>>)>>)>>,
                     <<LocationBlock("loc-1", <<Court1(<<R9, R9>>)>>)>>},
              b \in {<<>>, <<LocationBlock("loc-2", <<Court2(<<R18>>)>>)>>,
                     <<LocationBlock("loc-2", <<TennisCourt(<<R18>>)>>)>>}}

NextKeep ==
    \/ \E msg \in FetchErrors : FetchFails(msg)
    \/ \E payload \in KeepSnapshots : FetchReturns(payload)
    \/ Wake
    \/ \E loc \in LocIds : create_watch(loc, None, None, None)

SpecKeep == Init /\ [][NextKeep]_vars

\* The worker over snapshots with a block without an id or without a name, a block
\* given twice, and a court whose maxReservationTime is "1:30", each next to a
\* well-formed block of loc-2.
NoIdBlock == [location |-> Some([Val(LocationBlock("loc-1", <<Court1(<<R9>>)>>).location)
                                    EXCEPT !.id = Missing])]
NoNameBlock == [location |-> Some([Val(LocationBlock("loc-1", <<Court1(<<R9>>)>>).location)
                                      EXCEPT !.name = Missing])]

BlockSnapshots ==
    {<<>>,
     <<LocationBlock("loc-2", <<Court2(<<R18>>)>>)>>,
     <<LocationBlock("loc-1", <<Court1(<<R9>>)>>), LocationBlock("loc-2", <<Court2(<<R18>>)>>)>>,
     <<NoIdBlock, LocationBlock("loc-2", <<Court2(<<R18>>)>>)>>,
     <<LocationBlock("loc-2", <<Court2(<<R18>>)>>), NoNameBlock>>,
     <<LocationBlock("loc-1", <<Court1(<<R9>>)>>), LocationBlock("loc-1", <<Court1(<<R9>>)>>),
       LocationBlock("loc-2", <<Court2(<<R18>>)>>)>>,
     <<LocationBlock("loc-1", <<BadTimeCourt(<<R9>>), Court1(<<R18>>)>>),
       LocationBlock("loc-2", <<Court2(<<R18>>)>>)>>}

NextBlocks ==
    \/ \E payload \in BlockSnapshots : FetchReturns(payload)
    \/ Wake

SpecBlocks == Init /\ [][NextBlocks]_vars

\* The worker, whose cycle reads and later commits, next to requests that create
\* a watch on loc-1 and requests that delete a watch.
InitRace ==
    /\ db = EmptyDb
    /\ target_sport_id = Some(PICKLEBALL)
    /\ smtp = SmtpDefault
    /\ app = "running"
    /\ pc = "fetching"
    /\ client = "open"
    /\ running = 1
    /\ clock = 1
    /\ last = NoCycle
    /\ call = RaceCall

NextRace ==
    \/ \E payload \in NotifySnapshots : persist_cycle(payload)
    \/ commit_cycle
    \/ Wake
    \/ create_watch("loc-1", None, None, None)
    \/ \E w \in 1..MaxWatches : delete_watch_loads(w)
    \/ delete_watch_commits

SpecRace == InitRace /\ [][NextRace]_vars

\* match_watch alone, over its arguments.
InitMatch ==
    /\ db = EmptyDb
    /\ target_sport_id = None
    /\ smtp = SmtpDefault
    /\ app = "running"
    /\ client = "open"
    /\ running = 0
    /\ pc = "sleeping"
    /\ clock = MaxCycles
    /\ last = NoCycle
    /\ \E slot \in MatchSlots, watch \in MatchWatches :
           call = [args |-> <<slot, watch>>, slot |-> slot, watch |-> watch,
                   result |-> None]

NextMatch == CallMatchWatch

SpecMatch == InitMatch /\ [][NextMatch]_vars

(***************************************************************************)
(* Vocabulary of the properties.                                           *)
(***************************************************************************)
SlotKeys(table) == {SlotKey(table[id]) : id \in DOMAIN table}

RecordKey(r) == <<r.location_id, r.court_id, r.slot_time_local>>

LocationsOf(payload) ==
    {Val(payload[i].location) : i \in {j \in 1..Len(payload) : Present(payload[j].location)}}

ZoneNameOf(loc) ==
    IF TruthyStr(Get(loc.timezone)) THEN Get(loc.timezone) ELSE Some(settings_timezone)

\* The identity keys of the canonical slots of a snapshot: the slots of the courts
\* that have an id and pass the sport filter, whose timestamp parses.
CanonicalKeys(payload, sport) ==
    UNION {UNION {{<<Val(loc.id), Val(court.id), Val(parse_slot(raw, ZoneNameOf(loc))).local>> :
                      raw \in {r \in Range(Val(court.availableSlots)) :
                                  parse_slot(r, ZoneNameOf(loc)) # None}} :
                  court \in {c \in Range(Val(loc.courts)) :
                                TruthyStr(Get(c.id)) /\ ~SportExcluded(c, sport)}} :
           loc \in LocationsOf(payload)}

\* The keys of the snapshot of the last cycle, and those persisted before it.
IncomingKeys == CanonicalKeys(last.payload, target_sport_id)
PriorKeys == SlotKeys(last.pre.slots)

\* The step of the worker that ends a cycle.
CycleStep == pc = "fetching" /\ pc' = "sleeping"

FrameOfTables ==
    /\ db'.locations = db.locations
    /\ db'.slots = db.slots
    /\ db'.watches = db.watches
    /\ db'.alerts = db.alerts

LastSuccessfulSync(database) ==
    IF database.status = None THEN None ELSE Val(database.status).last_successful_sync

ErrorRecorded(database) ==
    /\ database.status # None
    /\ Val(database.status).last_error # None
    /\ Val(database.status).last_error_at # None

(***************************************************************************)
(* C1  Exact-set convergence: after a cycle whose sync_availability(S) is  *)
(* committed, the set of persisted identity keys equals the set of         *)
(* identity keys of the canonical slots of S.                              *)
(***************************************************************************)
C1_ExactSetConvergence ==
    last.outcome = "committed" => SlotKeys(db.slots) = IncomingKeys

\* A committed cycle that inserted a slot and deleted the slots of a location the
\* snapshot does not hold.
C1_Witness ==
    /\ last.outcome = "committed"
    /\ last.slotNew # <<>>
    /\ \E key \in PriorKeys :
           \A loc \in LocationsOf(last.payload) : Val(loc.id) # key[1]

(***************************************************************************)
(* C2  New-set exactness: the list sync_availability returns holds one     *)
(* record for each canonical identity key of S that was not persisted      *)
(* before the call, and no record for a key that was.                      *)
(***************************************************************************)
C2_NewSetExactness ==
    last.ran_alerts =>
        /\ \A key \in IncomingKeys \ PriorKeys :
               Cardinality({i \in 1..Len(last.new_records) :
                               RecordKey(last.new_records[i]) = key}) = 1
        /\ \A i \in 1..Len(last.new_records) :
               RecordKey(last.new_records[i]) \in IncomingKeys \ PriorKeys

(***************************************************************************)
(* C3  Idempotence: when sync_availability(S) ran and was committed, the   *)
(* next run of sync_availability(S) inserts nothing, deletes nothing,      *)
(* returns an empty list and leaves the number of persisted slots as it    *)
(* was.                                                                    *)
(***************************************************************************)
C3_Idempotence ==
    last.repeat =>
        /\ last.ran_alerts
        /\ last.slotNew = <<>>
        /\ last.slotDel = {}
        /\ last.new_records = <<>>
        /\ Cardinality(DOMAIN db.slots) = Cardinality(DOMAIN last.pre.slots)

\* The second of two runs on a snapshot that holds slots.
C3_Witness ==
    /\ last.repeat
    /\ DOMAIN db.slots # {}
    /\ IncomingKeys # {}

(***************************************************************************)
(* C4  Duplicate-free persistence: for every snapshot on which             *)
(* sync_availability returns, also one that holds an identity key more     *)
(* than once, the cycle commits, no two persisted slots share an identity  *)
(* key, the number of persisted slots is the number of distinct incoming   *)
(* keys, and the returned list holds each new key once.                    *)
(***************************************************************************)
C4_DuplicateFreePersistence ==
    last.ran_alerts =>
        /\ last.outcome = "committed"
        /\ \A a, b \in DOMAIN db.slots :
               SlotKey(db.slots[a]) = SlotKey(db.slots[b]) => a = b
        /\ Cardinality(DOMAIN db.slots) = Cardinality(IncomingKeys)
        /\ \A i, j \in 1..Len(last.new_records) :
               RecordKey(last.new_records[i]) = RecordKey(last.new_records[j]) => i = j

(***************************************************************************)
(* C5  At-most-once alerting: in every reachable state, no two Alert rows  *)
(* have the same (watch_id, court_id, slot_time_local).                    *)
(***************************************************************************)
C5_AtMostOnceAlerting ==
    \A a, b \in DOMAIN db.alerts :
        AlertKey(db.alerts[a]) = AlertKey(db.alerts[b]) => a = b

\* A committed cycle in which a slot was new again while the Alert of an earlier
\* appearance existed and its watch still matched.
C5_Witness ==
    /\ last.outcome = "committed"
    /\ \E i \in 1..Len(last.new_records), a \in DOMAIN last.pre.alerts :
           /\ last.pre.alerts[a].court_id = last.new_records[i].court_id
           /\ last.pre.alerts[a].slot_time_local = last.new_records[i].slot_time_local
           /\ last.pre.alerts[a].watch_id \in DOMAIN last.pre.watches
           /\ match_watch(last.new_records[i],
                          last.pre.watches[last.pre.alerts[a].watch_id])

(***************************************************************************)
(* C6  Full cross product: create_alerts creates an Alert for a pair       *)
(* (new slot, watch) exactly when the watch is active, match_watch holds   *)
(* and no Alert with the same (watch_id, court_id, slot_time_local)        *)
(* existed; no pair is left out because of another pair.                   *)
(***************************************************************************)
AlertIsFor(alert, record, watch_id) ==
    /\ alert.watch_id = watch_id
    /\ alert.location_id = record.location_id
    /\ alert.court_id = record.court_id
    /\ alert.slot_time_local = record.slot_time_local

\* The pairs (index of a new slot, watch id) that are due an Alert in the last cycle.
DuePairs ==
    {p \in (1..Len(last.new_records)) \X DOMAIN last.pre.watches :
        /\ last.pre.watches[p[2]].active
        /\ match_watch(last.new_records[p[1]], last.pre.watches[p[2]])
        /\ ~\E a \in DOMAIN last.pre.alerts :
               AlertKey(last.pre.alerts[a]) =
                   <<p[2], last.new_records[p[1]].court_id,
                     last.new_records[p[1]].slot_time_local>>}

C6_FullCrossProduct ==
    last.ran_alerts =>
        /\ Len(last.alertNew) = Cardinality(DuePairs)
        /\ \A p \in DuePairs : \E j \in 1..Len(last.alertNew) :
               AlertIsFor(last.alertNew[j], last.new_records[p[1]], p[2])
        /\ \A j \in 1..Len(last.alertNew) : \E p \in DuePairs :
               AlertIsFor(last.alertNew[j], last.new_records[p[1]], p[2])

\* A cycle in which one slot fired two watches, one watch fired for two slots, and
\* a pair that did not match came before a pair that did.
C6_Witness ==
    /\ last.ran_alerts
    /\ \E p, q \in DuePairs : p[1] = q[1] /\ p[2] # q[2]
    /\ \E p, q \in DuePairs : p[1] # q[1] /\ p[2] = q[2]
    /\ \E p \in DuePairs, q \in (1..Len(last.new_records)) \X DOMAIN last.pre.watches :
           /\ q \notin DuePairs
           /\ q[1] < p[1]

(***************************************************************************)
(* C7  Watch predicate: match_watch(slot, watch) is true exactly when the  *)
(* watch is active, its location is the slot's, its court_query is unset   *)
(* or empty or a case-insensitive substring of the slot's court name, its  *)
(* target_date is unset or the slot's local date, and the slot's local     *)
(* time of day is within time_from and time_to (both inclusive, each       *)
(* optional); the call changes neither argument.                           *)
(***************************************************************************)
SameLetter(a, b) == a = b \/ {a, b} \in {{"A", "a"}, {"B", "b"}}

SubstringIgnoringCase(query, name) ==
    \E i \in 0..(Len(name) - Len(query)) :
        \A k \in 1..Len(query) : SameLetter(query[k], name[i + k])

WatchPredicate(slot, watch) ==
    /\ watch.active
    /\ watch.location_id = slot.location_id
    /\ \/ watch.court_query \in {None, Some(<<>>)}
       \/ /\ slot.court_name \notin {None, Some(<<>>)}
          /\ SubstringIgnoringCase(Val(watch.court_query), Val(slot.court_name))
    /\ \/ watch.target_date = None
       \/ Val(watch.target_date) = slot.slot_time_local.date
    /\ \/ watch.time_from = None
       \/ slot.slot_time_local.tod >= Val(watch.time_from)
    /\ \/ watch.time_to = None
       \/ slot.slot_time_local.tod <= Val(watch.time_to)

C7_WatchPredicate ==
    call.result # None =>
        /\ Val(call.result) = WatchPredicate(call.slot, call.watch)
        /\ <<call.slot, call.watch>> = call.args

\* A match whose query differs from the court name in case and whose time bounds
\* are both the slot's time of day.
C7_Witness ==
    /\ call.result = Some(TRUE)
    /\ call.watch.court_query = Some(<<"a", "B">>)
    /\ call.slot.court_name = Some(<<"A", "b">>)
    /\ call.watch.target_date # None
    /\ call.watch.time_from = Some(call.slot.slot_time_local.tod)
    /\ call.watch.time_to = Some(call.slot.slot_time_local.tod)

(***************************************************************************)
(* C8  Fetch failure is recorded: after a cycle whose fetch raised,        *)
(* whatever the message of the exception, last_error and last_error_at     *)
(* are set, last_successful_sync has its previous value, and neither       *)
(* sync_availability nor create_alerts ran.                                *)
(***************************************************************************)
C8_FetchFailureRecorded ==
    last.outcome = "fetch_failed" =>
        /\ ErrorRecorded(db)
        /\ LastSuccessfulSync(db) = LastSuccessfulSync(last.pre)
        /\ ~last.ran_sync
        /\ ~last.ran_alerts

(***************************************************************************)
(* C9  Fetch failure leaves the persisted rows untouched: a cycle whose    *)
(* fetch raised leaves the Location, AvailabilitySlot, WatchRule and       *)
(* Alert rows as they were.                                                *)
(***************************************************************************)
C9_FetchFailureFrame ==
    [][CycleStep /\ last'.outcome = "fetch_failed" => FrameOfTables]_vars

\* A failed fetch over a database that holds locations, slots, watches and alerts.
C9_Witness ==
    /\ last.outcome = "fetch_failed"
    /\ pc = "sleeping"
    /\ DOMAIN db.locations # {}
    /\ DOMAIN db.slots # {}
    /\ DOMAIN db.watches # {}
    /\ DOMAIN db.alerts # {}

NotificationFailed ==
    \E k \in 1..Len(last.mail) : last.mail[k].result \in {"failed", "raised"}

DuePairsOf(watch_id) == {p \in DuePairs : p[2] = watch_id}

C11_NotificationFailureIsolation ==
    last.ran_alerts /\ NotificationFailed =>
        /\ last.outcome = "committed"
        /\ Val(db.status).last_error = None
        /\ Val(db.status).last_successful_sync = Some(last.at)
        /\ Len(last.mail) = Cardinality(DuePairs)
        /\ \A p \in DuePairs : \E a \in DOMAIN db.alerts \ DOMAIN last.pre.alerts :
               AlertIsFor(db.alerts[a], last.new_records[p[1]], p[2])
        /\ \A w \in DOMAIN last.pre.watches :
               /\ db.watches[w].trigger_count =
                      last.pre.watches[w].trigger_count + Cardinality(DuePairsOf(w))
               /\ DuePairsOf(w) # {} => db.watches[w].last_triggered_at = Some(last.at)

\* A committed cycle whose first notification raised and in which a later one was
\* refused by the mail server.
C11_Witness ==
    /\ last.outcome = "committed"
    /\ Len(last.mail) >= 2
    /\ last.mail[1].result = "raised"
    /\ \E k \in 2..Len(last.mail) : last.mail[k].result = "failed"

(***************************************************************************)
(* C12  The scheduler always retries: while the application runs, no       *)
(* cycle outcome (also not a failure while recording the error status)     *)
(* ends the worker: the task is in a cycle or asleep.                      *)
(***************************************************************************)
C12_SchedulerAlwaysRetries ==
    app = "running" => pc \in {"fetching", "sleeping"}

(***************************************************************************)
(* C13  No overlapping cycles: at most one cycle is in progress; while     *)
(* the worker sleeps no cycle is in progress and the status of the cycle   *)
(* that ended is committed; a cycle is in progress only while the worker   *)
(* awaits it.                                                              *)
(***************************************************************************)
C13_NoOverlappingCycles ==
    /\ running \in {0, 1}
    /\ running = 1 <=> pc = "fetching"
    /\ pc = "sleeping" =>
           /\ last.outcome \in {"committed", "rolled_back", "fetch_failed"}
           /\ last.at = clock
           /\ db.status # None

\* The second cycle of the worker is in progress.
C13_Witness ==
    /\ pc = "fetching"
    /\ running = 1
    /\ clock = 2
    /\ last.at = 1

(***************************************************************************)
(* C14  Clean cancellation: a shutdown that cancels the worker during the  *)
(* fetch or during the sleep leaves the database as the last completed     *)
(* cycle left it (the state before the cycle in flight, or after the full  *)
(* commit of the cycle that ended), ends the worker and closes the client. *)
(***************************************************************************)
C14_CleanCancellation ==
    [][app = "running" /\ app' = "stopped" /\ pc \in {"fetching", "sleeping"} =>
           /\ db' = db
           /\ pc' = "cancelled"
           /\ client' = "closed"
           /\ running' = 0]_vars

\* A worker cancelled during the fetch of its second cycle, over a database that
\* holds the slots its first cycle committed.
C14_Witness ==
    /\ app = "stopped"
    /\ pc = "cancelled"
    /\ client = "closed"
    /\ last.outcome = "committed"
    /\ last.at < clock
    /\ DOMAIN db.slots # {}

(***************************************************************************)
(* Vocabulary of the metadata properties: the persisted slots that the     *)
(* snapshot of the last cycle matched, and the metadata the snapshot       *)
(* gives for a key.                                                        *)
(***************************************************************************)
MatchedSlots == {id \in DOMAIN last.pre.slots : SlotKey(last.pre.slots[id]) \in IncomingKeys}

\* The (location, court) blocks of the last snapshot that hold the key.
BlocksFor(key) ==
    {b \in UNION {{<<loc, Val(loc.courts)[i]>> : i \in 1..Len(Val(loc.courts))} :
                     loc \in LocationsOf(last.payload)} :
        key \in CanonicalKeys(<<[location |-> Some([b[1] EXCEPT !.courts = Some(<<b[2]>>)])]>>,
                              target_sport_id)}

IncomingName(court) ==
    IF TruthyText(Get(court.name)) THEN Get(court.name) ELSE Get(court.displayName)

IncomingSport(court) ==
    IF SportsOf(court) = <<>> THEN None ELSE SportOf(SportsOf(court)[1])

IncomingDuration(block) == Some(resolve_duration(block[2], block[1]).value)

(***************************************************************************)
(* C15  Metadata backfill without clobber: a committed cycle leaves every  *)
(* persisted slot that its snapshot matched under the same row id and      *)
(* identity key and does not return it as new; a populated court_name,     *)
(* sport_id or duration_minutes stays populated unless the snapshot gives  *)
(* a populated value for it; a slot without a court name gets the          *)
(* incoming non-empty name.                                                *)
(***************************************************************************)
C15_BackfillWithoutClobber ==
    last.outcome = "committed" =>
        \A id \in MatchedSlots :
            LET old == last.pre.slots[id]
            IN  /\ id \in DOMAIN db.slots
                /\ SlotKey(db.slots[id]) = SlotKey(old)
                /\ \A i \in 1..Len(last.new_records) :
                       RecordKey(last.new_records[i]) # SlotKey(old)
                /\ \A b \in BlocksFor(SlotKey(old)) :
                       /\ ~TruthyText(IncomingName(b[2])) =>
                              db.slots[id].court_name = old.court_name
                       /\ ~TruthyStr(IncomingSport(b[2])) =>
                              db.slots[id].sport_id = old.sport_id
                       /\ ~TruthyInt(IncomingDuration(b)) =>
                              db.slots[id].duration_minutes = old.duration_minutes
                       /\ ~TruthyText(old.court_name) /\ TruthyText(IncomingName(b[2])) =>
                              db.slots[id].court_name = IncomingName(b[2])

\* A committed cycle whose snapshot gave no court name, no sport and the duration 0
\* for a persisted slot that had all three.
C15_Witness ==
    /\ last.outcome = "committed"
    /\ \E id \in MatchedSlots : \E b \in BlocksFor(SlotKey(last.pre.slots[id])) :
           /\ TruthyText(last.pre.slots[id].court_name)
           /\ TruthyStr(last.pre.slots[id].sport_id)
           /\ TruthyInt(last.pre.slots[id].duration_minutes)
           /\ ~TruthyText(IncomingName(b[2]))
           /\ ~TruthyStr(IncomingSport(b[2]))
           /\ ~TruthyInt(IncomingDuration(b))

(***************************************************************************)
(* C16  Backfill of changed metadata: a committed cycle sets each of       *)
(* duration_minutes, sport_id and court_name of a matched slot to the      *)
(* incoming value when that value is populated, also when the stored       *)
(* value was populated and differs.                                        *)
(***************************************************************************)
C16_BackfillOfChangedMetadata ==
    last.outcome = "committed" =>
        \A id \in MatchedSlots : \A b \in BlocksFor(SlotKey(last.pre.slots[id])) :
            /\ TruthyInt(IncomingDuration(b)) =>
                   db.slots[id].duration_minutes = IncomingDuration(b)
            /\ TruthyStr(IncomingSport(b[2])) =>
                   db.slots[id].sport_id = IncomingSport(b[2])
            /\ TruthyText(IncomingName(b[2])) =>
                   db.slots[id].court_name = IncomingName(b[2])

(***************************************************************************)
(* Vocabulary of the sport filter: the courts with an id of the last       *)
(* snapshot, what a court's slots look like when persisted, and the two    *)
(* readings of "a declared sport has the id".                              *)
(***************************************************************************)
CourtBlocks ==
    {b \in UNION {{<<loc, Val(loc.courts)[i]>> : i \in 1..Len(Val(loc.courts))} :
                     loc \in LocationsOf(last.payload)} :
        TruthyStr(Get(b[2].id))}

SlotsOfCourt(table, b) ==
    {id \in DOMAIN table : /\ table[id].location_id = Val(b[1].id)
                           /\ table[id].court_id = Val(b[2].id)}

RecordsOfCourt(b) ==
    {i \in 1..Len(last.new_records) : /\ last.new_records[i].location_id = Val(b[1].id)
                                      /\ last.new_records[i].court_id = Val(b[2].id)}

WellFormedKeys(b) ==
    {<<Val(b[1].id), Val(b[2].id), Val(parse_slot(raw, ZoneNameOf(b[1]))).local>> :
        raw \in {r \in Range(Val(b[2].availableSlots)) :
                    parse_slot(r, ZoneNameOf(b[1])) # None}}

\* The sport's identifier is its sportId, or its id when sportId is absent or empty.
DeclaresSport(court, target) ==
    \E i \in 1..Len(SportsOf(court)) :
        LET sport == SportsOf(court)[i]
        IN  IF TruthyStr(Get(sport.sportId)) THEN Get(sport.sportId) = target
            ELSE Get(sport.id) = target

\* Either field of the sport carries the identifier.
DeclaresSportInEitherField(court, target) ==
    \E i \in 1..Len(SportsOf(court)) :
        \/ Get(SportsOf(court)[i].sportId) = target
        \/ Get(SportsOf(court)[i].id) = target

\* What a committed cycle leaves of the court: all its well-formed slots, or no slot.
CourtContributes(b) ==
    /\ WellFormedKeys(b) \subseteq SlotKeys(db.slots)
    /\ \A i \in RecordsOfCourt(b) : last.new_records[i].sport_id = IncomingSport(b[2])
CourtFilteredOut(b) ==
    /\ SlotsOfCourt(db.slots, b) = {}
    /\ RecordsOfCourt(b) = {}

(***************************************************************************)
(* C17  Sport filter: when a target sport id is configured, a court        *)
(* contributes canonical slots if and only if at least one of its declared *)
(* sports has that id as its sportId, or as its id when its sportId is     *)
(* absent or empty; a court declaring only other sports, or no sports,     *)
(* contributes zero slots and the slots persisted for it are deleted.      *)
(* When no target is configured every court with an id passes and the      *)
(* first declared sport id (if any) is recorded.                           *)
(***************************************************************************)
C17_SportFilter ==
    last.outcome = "committed" =>
        \A b \in CourtBlocks :
            IF TruthyStr(target_sport_id) /\ ~DeclaresSport(b[2], target_sport_id)
            THEN CourtFilteredOut(b)
            ELSE CourtContributes(b)

\* A committed cycle deleted the persisted slots of a court whose only sport has
\* the target in its id field and another sport in its sportId field.
C17_Witness ==
    /\ last.outcome = "committed"
    /\ TruthyStr(target_sport_id)
    /\ \E b \in CourtBlocks :
           /\ SlotsOfCourt(last.pre.slots, b) # {}
           /\ DeclaresSportInEitherField(b[2], target_sport_id)
           /\ ~DeclaresSport(b[2], target_sport_id)
           /\ SlotsOfCourt(db.slots, b) = {}

\* C17 as stated: the court passes when a declared sport has the target id as
\* sportId or as id.
C17_SportFilterEitherField ==
    last.outcome = "committed" =>
        \A b \in CourtBlocks :
            IF TruthyStr(target_sport_id)
               /\ ~DeclaresSportInEitherField(b[2], target_sport_id)
            THEN CourtFilteredOut(b)
            ELSE CourtContributes(b)

(***************************************************************************)
(* Vocabulary of the duration policy: the four steps as the policy words   *)
(* them, over the arguments of the call.                                   *)
(***************************************************************************)
IsHms(x) ==
    /\ Present(x)
    /\ Val(x).kind = "str"
    /\ Len(Val(x).parts) = 3
    /\ \A i \in 1..3 : Val(x).parts[i] # None

MinutesOfHms(x) ==
    Val(Val(x).parts[1]) * 60 + Val(Val(x).parts[2])
    + (IF Val(Val(x).parts[3]) >= 30 THEN 1 ELSE 0)

IsNumber(x) == Present(x) /\ Val(x).kind \in {"int", "float"}

Truncated(x) ==
    IF Val(x).kind = "int" THEN Val(x).n
    ELSE IF Val(x).n >= 0 THEN Val(x).n \div 10 ELSE 0 - ((0 - Val(x).n) \div 10)

FirstMatch(court, location_payload) ==
    IF Present(court.allowedMinutes) /\ Val(court.allowedMinutes) # <<>>
    THEN Max(Range(Val(court.allowedMinutes)))
    ELSE IF IsHms(court.maxReservationTime) THEN MinutesOfHms(court.maxReservationTime)
    ELSE IF IsHms(location_payload.maxReservationTime)
         THEN MinutesOfHms(location_payload.maxReservationTime)
    ELSE IF IsNumber(location_payload.maxReservationTime)
         THEN Truncated(location_payload.maxReservationTime)
    ELSE 60

(***************************************************************************)
(* C18  Duration resolution, first match wins: the duration is the maximum *)
(* of the court's allowed-duration list when it is non-empty; else the     *)
(* court's maxReservationTime HH:MM:SS as h*60 + m, plus 1 when s >= 30;   *)
(* else the location's maxReservationTime, converted the same way when a   *)
(* string and truncated when numeric; else 60; and it is a positive        *)
(* integer for every input.                                                *)
(***************************************************************************)
C18_DurationResolution ==
    call.result # None =>
        /\ Val(call.result).err = None
        /\ Val(call.result).value = FirstMatch(call.args[1], call.args[2])
        /\ Val(call.result).value > 0

(***************************************************************************)
(* Vocabulary of the per-record failures: the snapshot without its courts  *)
(* that have no id and without its timestamps that do not parse, and the   *)
(* cycle of the worker on a snapshot.                                      *)
(***************************************************************************)
WithoutBadSlots(court, loc) ==
    IF ~Present(court.availableSlots) THEN court
    ELSE [court EXCEPT !.availableSlots =
             Some(SelectSeq(Val(court.availableSlots),
                            LAMBDA raw : parse_slot(raw, ZoneNameOf(loc)) # None))]

RECURSIVE WithoutBadCourts(_, _)
WithoutBadCourts(courts, loc) ==
    IF courts = <<>> THEN <<>>
    ELSE IF ~TruthyStr(Get(courts[1].id)) THEN WithoutBadCourts(Tail(courts), loc)
    ELSE <<WithoutBadSlots(courts[1], loc)>> \o WithoutBadCourts(Tail(courts), loc)

WithoutBadEntries(payload) ==
    [i \in 1..Len(payload) |->
        IF ~Present(payload[i].location) \/ ~Present(Val(payload[i].location).courts)
        THEN payload[i]
        ELSE [location |-> Some([Val(payload[i].location) EXCEPT !.courts =
                 Some(WithoutBadCourts(Val(Val(payload[i].location).courts),
                                       Val(payload[i].location)))])]]

\* What the cycle of the last step gives on payload: the database and the new slots.
CycleOn(payload) ==
    With(try_persist(last.pre, payload, target_sport_id, smtp, last.at), LAMBDA t :
        [db |-> IF t.err = None THEN commit(last.pre, t.f).db
                ELSE record_error(last.pre, t.f, Val(t.err), last.at),
         new_records |-> t.f.new_records,
         outcome |-> IF t.err = None THEN "committed" ELSE "rolled_back"])

(***************************************************************************)
(* C19  Per-record parse failures are local: a cycle whose snapshot holds  *)
(* a malformed slot timestamp or a court block without an id leaves the    *)
(* database, the new slots and the outcome that the snapshot without those *)
(* entries gives, and it is recorded as a success whenever that snapshot   *)
(* is.                                                                     *)
(***************************************************************************)
C19_ParseFailuresAreLocal ==
    last.ran_sync /\ WithoutBadEntries(last.payload) # last.payload =>
        With(CycleOn(WithoutBadEntries(last.payload)), LAMBDA clean :
            /\ db = clean.db
            /\ last.new_records = clean.new_records
            /\ last.outcome = clean.outcome
            /\ clean.outcome = "committed" =>
                   /\ Val(db.status).last_error = None
                   /\ Val(db.status).last_successful_sync = Some(last.at))

\* A committed cycle over a court with a malformed timestamp and a well-formed one,
\* which is persisted as new, while slots persisted before were deleted.
C19_Witness ==
    /\ last.outcome = "committed"
    /\ \E b \in CourtBlocks :
           /\ \E raw \in Range(Val(b[2].availableSlots)) :
                  parse_slot(raw, ZoneNameOf(b[1])) = None
           /\ \E i \in RecordsOfCourt(b) :
                  RecordKey(last.new_records[i]) \in SlotKeys(db.slots)
    /\ SlotKeys(last.pre.slots) \ SlotKeys(db.slots) # {}

(***************************************************************************)
(* C20  SystemStatus is a singleton with mutually exclusive outcomes:      *)
(* after a cycle there is the one SystemStatus row; after a successful     *)
(* cycle last_successful_sync is the time of the cycle and last_error and  *)
(* last_error_at are null; after a failed cycle last_error and             *)
(* last_error_at are set and last_successful_sync is the value the         *)
(* database held before the cycle.                                         *)
(***************************************************************************)
C20_StatusSingleton ==
    /\ last.outcome # "none" => db.status # None
    /\ last.outcome = "committed" =>
           /\ Val(db.status).last_successful_sync = Some(last.at)
           /\ Val(db.status).last_error = None
           /\ Val(db.status).last_error_at = None
    /\ last.outcome \in {"rolled_back", "fetch_failed"} =>
           /\ Val(db.status).last_error # None
           /\ Val(db.status).last_error_at = Some(last.at)
           /\ Val(db.status).last_successful_sync = LastSuccessfulSync(last.pre)

(***************************************************************************)
(* Vocabulary of the location upsert: the row the call leaves, and what    *)
(* the payload gives for each field of the row.                            *)
(***************************************************************************)
UpsertedRow == Val(call.result).locs[call.args[1].id]

IncomingField(field) ==
    CASE field = "name" -> Get(call.args[2].name)
      [] field = "address" -> Get(call.args[2].formattedAddress)
      [] field = "timezone" -> Get(call.args[2].timezone)
      [] field = "image_url" -> Thumbnail(call.args[2].images)

LocationFields == {"name", "address", "timezone", "image_url"}

(***************************************************************************)
(* C21  Location fields are never cleared: upsert_location on an existing  *)
(* row leaves each populated field populated, and changes a field only to  *)
(* a non-empty value of the payload.                                       *)
(***************************************************************************)
C21_LocationFieldsNeverCleared ==
    call.result # None =>
        \A field \in LocationFields :
            /\ TruthyStr(call.args[1][field]) => TruthyStr(UpsertedRow[field])
            /\ UpsertedRow[field] # call.args[1][field] =>
                   /\ TruthyStr(IncomingField(field))
                   /\ UpsertedRow[field] = IncomingField(field)

(***************************************************************************)
(* C22  Interval floor: for every configured scrape_interval_seconds, 0    *)
(* and negative values included, the delay the worker sleeps after a cycle *)
(* is the configured value when that is above 15 and 15 otherwise, hence   *)
(* never below 15 seconds.                                                 *)
(***************************************************************************)
C22_IntervalFloor ==
    call.result # None =>
        /\ Val(call.result) >= 15
        /\ Val(call.result) = IF call.args[1] > 15 THEN call.args[1] ELSE 15

\* The delay of a worker configured with a negative interval.
C22_Witness ==
    /\ call.result # None
    /\ call.args[1] < 0
    /\ Val(call.result) = 15

\* The three cases in which no mail is to be attempted for a watch.
NotificationIsNoOp(watch) ==
    \/ ~smtp.enabled
    \/ smtp.host \in {None, Some("")}
    \/ watch.contact \in {None, Some("")}

(***************************************************************************)
(* C23  Disabled or contact-less notification is a no-op: when SMTP is     *)
(* disabled, no SMTP host is configured, or the watch has no contact,      *)
(* send_email_alert returns False without a connection and without         *)
(* raising, and the cycle still commits the Alert of every due pair and    *)
(* the trigger bookkeeping.                                                *)
(***************************************************************************)
C23_NoOpNotification ==
    last.ran_alerts =>
        /\ \A k \in 1..Len(last.mail) :
               NotificationIsNoOp(last.pre.watches[last.mail[k].watch_id]) <=>
                   last.mail[k].result = "skipped"
        /\ (\E k \in 1..Len(last.mail) : last.mail[k].result = "skipped") =>
               /\ last.outcome = "committed"
               /\ Len(last.mail) = Cardinality(DuePairs)
               /\ \A p \in DuePairs :
                      \E a \in DOMAIN db.alerts \ DOMAIN last.pre.alerts :
                          AlertIsFor(db.alerts[a], last.new_records[p[1]], p[2])
               /\ \A w \in DOMAIN last.pre.watches :
                      /\ db.watches[w].trigger_count =
                             last.pre.watches[w].trigger_count
                                 + Cardinality(DuePairsOf(w))
                      /\ DuePairsOf(w) # {} =>
                             db.watches[w].last_triggered_at = Some(last.at)

\* A committed cycle with mail switched on and a host, in which a watch without a
\* contact got its Alert, next to a watch whose mail was sent.
C23_Witness ==
    /\ last.outcome = "committed"
    /\ smtp.enabled
    /\ smtp.host = Some("smtp.example.com")
    /\ \E k \in 1..Len(last.mail) :
           /\ last.mail[k].result = "skipped"
           /\ db.watches[last.mail[k].watch_id].trigger_count > 0
    /\ \E k \in 1..Len(last.mail) : last.mail[k].result = "sent"

(***************************************************************************)
(* Vocabulary of the watch API: the step that answers a request, the       *)
(* request and the answer.                                                 *)
(***************************************************************************)
ApiStep == call' # call
Handler == call'.args[1]
Argument == call'.args[2]
Status == Val(call'.result)

OtherTablesUnchanged ==
    /\ db'.locations = db.locations
    /\ db'.slots = db.slots
    /\ db'.status = db.status

\* The request before this one toggled the same watch, and nothing else has touched
\* the watch since.
ToggledJustBefore ==
    /\ call.args # <<>>
    /\ call.args[1] = "toggle_watch"
    /\ call.args[2] = Argument
    /\ call.result = Some(200)
    /\ Argument \in DOMAIN db.watches
    /\ db.watches[Argument] =
           [call.before.watches[Argument] EXCEPT !.active = ~@]

(***************************************************************************)
(* C24  Watch lifecycle through the API: create_watch stores a watch with  *)
(* active = true and trigger_count = 0; toggle_watch flips active and      *)
(* leaves every other field and every other row unchanged, so toggling     *)
(* twice restores the watch; delete_watch removes the watch from the       *)
(* listed watches; toggle_watch and delete_watch on an unknown id answer   *)
(* 404 and change nothing.                                                 *)
(***************************************************************************)
C24_WatchLifecycle ==
    [][ApiStep =>
        /\ Handler = "create_watch" /\ Status = 200 =>
               \E id \in DOMAIN db'.watches \ DOMAIN db.watches :
                   /\ DOMAIN db'.watches = DOMAIN db.watches \cup {id}
                   /\ db'.watches[id].active
                   /\ db'.watches[id].trigger_count = 0
                   /\ db'.watches[id].location_id = Argument
                   /\ \A w \in DOMAIN db.watches : db'.watches[w] = db.watches[w]
        /\ Handler = "toggle_watch" =>
               IF Argument \in DOMAIN db.watches
               THEN /\ Status = 200
                    /\ db'.watches = [db.watches EXCEPT ![Argument].active = ~@]
                    /\ db'.alerts = db.alerts
                    /\ OtherTablesUnchanged
                    /\ ToggledJustBefore =>
                           db'.watches[Argument] = call.before.watches[Argument]
               ELSE Status = 404 /\ db' = db
        /\ Handler = "delete_watch" =>
               IF Argument \in DOMAIN db.watches
               THEN /\ Status = 200
                    /\ DOMAIN db'.watches = DOMAIN db.watches \ {Argument}
                    /\ \A w \in DOMAIN db'.watches : db'.watches[w] = db.watches[w]
                    /\ OtherTablesUnchanged
               ELSE Status = 404 /\ db' = db]_vars

\* A watch that a cycle has triggered was toggled twice and is as it was, active.
C24_Witness ==
    /\ call.args = <<"toggle_watch", 1, 3>>
    /\ call.result = Some(200)
    /\ call.prev.args = <<"toggle_watch", 1, 2>>
    /\ call.prev.result = Some(200)
    /\ db.watches[1] = call.prev.before.watches[1]
    /\ db.watches[1].active
    /\ db.watches[1].trigger_count > 0

(***************************************************************************)
(* C25  create_watch for a location_id that has no Location row answers    *)
(* 404 and creates no WatchRule row, and answers 200 otherwise; every      *)
(* WatchRule row references a Location row.                                *)
(***************************************************************************)
C25_CreateWatchUnknownLocation ==
    [][/\ ApiStep /\ Handler = "create_watch" =>
              IF Argument \in DOMAIN db.locations
              THEN Status = 200
              ELSE Status = 404 /\ db' = db
       /\ \A w \in DOMAIN db'.watches :
              db'.watches[w].location_id \in DOMAIN db'.locations]_vars

\* The request for the unknown location was answered 404 when watches existed.
C25_Witness ==
    /\ call.args # <<>>
    /\ call.args[1] = "create_watch"
    /\ call.args[2] = "missing"
    /\ call.result = Some(404)
    /\ DOMAIN db.watches # {}
    /\ db.watches = call.before.watches

(***************************************************************************)
(* Vocabulary of the listing: the filtered slots at a time, and how often  *)
(* a name is in a list.                                                    *)
(***************************************************************************)
SlotsAt(slots, stamp) == {i \in 1..Len(slots) : slots[i].slot_time_local = stamp}

Occurrences(names, name) == Cardinality({i \in 1..Len(names) : names[i] = name})

RECURSIVE SumOfCounts(_)
SumOfCounts(responses) ==
    IF responses = <<>> THEN 0
    ELSE responses[1].court_count + SumOfCounts(Tail(responses))

(***************************************************************************)
(* C26  Availability listing collapses slots by time: _dedupe_slots        *)
(* returns exactly one response per distinct local slot time among the     *)
(* filtered slots, in ascending time order; the court_count of a response  *)
(* is the number of filtered slots at its time, so the court_counts sum to *)
(* the number of filtered slots; court_names lists the name, or the id, of *)
(* every such court.                                                       *)
(***************************************************************************)
C26_ListingCollapsesByTime ==
    call.result # None =>
        LET slots == call.args[1]
            responses == Val(call.result)
        IN  /\ {responses[k].slot_time_local : k \in 1..Len(responses)}
                   = {slots[i].slot_time_local : i \in 1..Len(slots)}
            /\ \A j, k \in 1..Len(responses) :
                   j < k => Stamp(responses[j].slot_time_local)
                                < Stamp(responses[k].slot_time_local)
            /\ \A k \in 1..Len(responses) :
                   /\ responses[k].court_count
                          = Cardinality(SlotsAt(slots, responses[k].slot_time_local))
                   /\ responses[k].court_names # None
                   /\ Len(Val(responses[k].court_names)) = responses[k].court_count
                   /\ \A i \in SlotsAt(slots, responses[k].slot_time_local) :
                          LET name == IF slots[i].court_name \in {None, Some(<<>>)}
                                      THEN slots[i].court_id
                                      ELSE Val(slots[i].court_name)
                          IN  Occurrences(Val(responses[k].court_names), name)
                                  = Cardinality({h \in SlotsAt(slots,
                                                     responses[k].slot_time_local) :
                                        (IF slots[h].court_name \in {None, Some(<<>>)}
                                         THEN slots[h].court_id
                                         ELSE Val(slots[h].court_name)) = name})
            /\ SumOfCounts(responses) = Len(slots)

\* Three filtered slots at two times, two courts at the first time and a court
\* without a name among them.
C26_Witness ==
    /\ call.result # None
    /\ Len(call.args[1]) = 3
    /\ Len(Val(call.result)) = 2
    /\ Val(call.result)[1].court_count = 2
    /\ \E i \in 1..3 : call.args[1][i].court_name = None

(***************************************************************************)
(* C27  At-most-once notification: in a cycle that ran create_alerts, also *)
(* one whose commit fails and is rolled back, the notification sender is   *)
(* invoked at most once for each (watch_id, court_id, slot_time_local),    *)
(* never for a key that has an Alert row already, and every invocation     *)
(* corresponds to an Alert row that the cycle commits.                     *)
(***************************************************************************)
C27_AtMostOnceNotification ==
    last.ran_alerts =>
        /\ Len(last.mail) = Len(last.alertNew)
        /\ \A j, k \in 1..Len(last.alertNew) :
               j # k => AlertKey(last.alertNew[j]) # AlertKey(last.alertNew[k])
        /\ \A k \in 1..Len(last.mail) :
               /\ last.mail[k].watch_id = last.alertNew[k].watch_id
               /\ \A a \in DOMAIN last.pre.alerts :
                      AlertKey(last.pre.alerts[a]) # AlertKey(last.alertNew[k])
               /\ last.outcome = "committed"
               /\ \E a \in DOMAIN db.alerts \ DOMAIN last.pre.alerts :
                      AlertKey(db.alerts[a]) = AlertKey(last.alertNew[k])

(***************************************************************************)
(* C28  Alerts only for newly observed slots: in every cycle an Alert is   *)
(* created only for a slot whose identity key was not persisted at the     *)
(* start of the cycle, so a slot that stays persisted produces no Alert in *)
(* a later cycle, also for a watch created or re-activated after the slot  *)
(* first appeared.                                                         *)
(***************************************************************************)
C28_AlertsOnlyForNewSlots ==
    last.ran_alerts =>
        /\ \A j \in 1..Len(last.alertNew) :
               <<last.alertNew[j].location_id, last.alertNew[j].court_id,
                 last.alertNew[j].slot_time_local>> \notin PriorKeys
        /\ last.outcome = "committed" =>
               \A a \in DOMAIN db.alerts \ DOMAIN last.pre.alerts :
                   <<db.alerts[a].location_id, db.alerts[a].court_id,
                     db.alerts[a].slot_time_local>> \notin PriorKeys

\* A committed cycle in which a new slot fired a watch that has no Alert for the
\* slot that stayed persisted, which it matches as well.
C28_Witness ==
    /\ last.outcome = "committed"
    /\ \E w \in DOMAIN last.pre.watches, id \in DOMAIN last.pre.slots :
           /\ id \in DOMAIN db.slots
           /\ last.pre.watches[w].active
           /\ match_watch(last.pre.slots[id], last.pre.watches[w])
           /\ \A a \in DOMAIN db.alerts :
                  db.alerts[a].watch_id = w =>
                      db.alerts[a].slot_time_local # last.pre.slots[id].slot_time_local
           /\ \E a \in DOMAIN db.alerts \ DOMAIN last.pre.alerts :
                  db.alerts[a].watch_id = w

(***************************************************************************)
(* C29  Trigger bookkeeping matches the alert log: after any sequence of   *)
(* committed and rolled-back cycles, without watch deletion, every watch's *)
(* trigger_count is the number of Alert rows persisted for the watch, and  *)
(* last_triggered_at is set if and only if trigger_count > 0.              *)
(***************************************************************************)
C29_TriggerBookkeeping ==
    \A w \in DOMAIN db.watches :
        /\ db.watches[w].trigger_count
               = Cardinality({a \in DOMAIN db.alerts : db.alerts[a].watch_id = w})
        /\ db.watches[w].last_triggered_at # None <=> db.watches[w].trigger_count > 0

\* A cycle that fired alerts was rolled back, after a cycle that committed an Alert
\* of the same watch.
C29_Witness ==
    /\ last.outcome = "rolled_back"
    /\ last.ran_alerts
    /\ \E j \in 1..Len(last.alertNew) :
           /\ db.watches[last.alertNew[j].watch_id].trigger_count = 1
           /\ \E a \in DOMAIN db.alerts : db.alerts[a].watch_id = last.alertNew[j].watch_id

(***************************************************************************)
(* C30  An inactive watch is inert: a watch whose active flag is false     *)
(* when a cycle loads its watches gets no Alert row, no trigger_count or   *)
(* last_triggered_at change and no notification in that cycle, whatever    *)
(* slots are new; so a watch paused by toggle_watch produces nothing until *)
(* it is toggled back.                                                     *)
(***************************************************************************)
C30_InactiveWatchInert ==
    last.ran_sync =>
        \A w \in DOMAIN last.pre.watches :
            ~last.pre.watches[w].active =>
                /\ \A j \in 1..Len(last.alertNew) : last.alertNew[j].watch_id # w
                /\ \A k \in 1..Len(last.mail) : last.mail[k].watch_id # w
                /\ \A a \in DOMAIN db.alerts \ DOMAIN last.pre.alerts :
                       db.alerts[a].watch_id # w
                /\ db.watches[w].trigger_count = last.pre.watches[w].trigger_count
                /\ db.watches[w].last_triggered_at
                       = last.pre.watches[w].last_triggered_at

\* A committed cycle fired an active watch for a new slot that a paused watch, fired
\* by an earlier cycle, would have matched too.
C30_Witness ==
    /\ last.outcome = "committed"
    /\ \E v, w \in DOMAIN last.pre.watches, i \in 1..Len(last.new_records) :
           /\ ~last.pre.watches[w].active
           /\ last.pre.watches[w].trigger_count > 0
           /\ match_watch(last.new_records[i],
                          [last.pre.watches[w] EXCEPT !.active = TRUE])
           /\ last.pre.watches[v].active
           /\ \E a \in DOMAIN db.alerts \ DOMAIN last.pre.alerts :
                  AlertIsFor(db.alerts[a], last.new_records[i], v)

(***************************************************************************)
(* C31  Persisted slots are visible under the sport filter: when a target  *)
(* sport id is configured, every persisted slot carries a sport_id equal   *)
(* to the target id, also for a court declaring several sports of which    *)
(* the target is not the first, so every persisted slot is among the slots *)
(* the /api/locations listing without query parameters keeps.              *)
(***************************************************************************)
C31_PersistedSlotsListed ==
    TruthyStr(target_sport_id) =>
        \A id \in DOMAIN db.slots :
            /\ db.slots[id].sport_id = target_sport_id
            /\ db.slots[id].location_id \in DOMAIN db.locations
            /\ db.slots[id] \in Range(api_locations(db, target_sport_id)
                                          [db.slots[id].location_id])

(***************************************************************************)
(* Vocabulary of the location frame: the location ids a snapshot names and *)
(* the blocks none of whose courts passes the sport filter.                *)
(***************************************************************************)
LocationIdsOf(payload) == {Val(loc.id) : loc \in LocationsOf(payload)}

AllCourtsFilteredOut(loc) ==
    /\ Val(loc.courts) # <<>>
    /\ \A i \in 1..Len(Val(loc.courts)) :
           SportExcluded(Val(loc.courts)[i], target_sport_id)

(***************************************************************************)
(* C32  Locations are never deleted by reconciliation: after a cycle the   *)
(* set of Location ids is a superset of the set before it; a location      *)
(* absent from the snapshot keeps its row and its watch rules while, once  *)
(* the cycle is committed, all of its slots are deleted; and a committed   *)
(* cycle upserts every location block of its snapshot, also one whose      *)
(* courts are all filtered out.                                            *)
(***************************************************************************)
C32_LocationsNeverDeleted ==
    last.outcome # "none" =>
        /\ DOMAIN last.pre.locations \subseteq DOMAIN db.locations
        /\ \A loc \in DOMAIN last.pre.locations \ LocationIdsOf(last.payload) :
               /\ db.locations[loc] = last.pre.locations[loc]
               /\ \A w \in DOMAIN last.pre.watches :
                      last.pre.watches[w].location_id = loc =>
                          w \in DOMAIN db.watches /\ db.watches[w] = last.pre.watches[w]
               /\ last.outcome = "committed" =>
                      \A id \in DOMAIN db.slots : db.slots[id].location_id # loc
        /\ last.outcome = "committed" =>
               \A loc \in LocationsOf(last.payload) :
                   /\ Val(loc.id) \in DOMAIN db.locations
                   /\ db.locations[Val(loc.id)].name = loc.name

\* A committed cycle whose snapshot holds a location not persisted before, all of
\* whose courts are filtered out, and does not hold a persisted location that has
\* slots and a watch: the first has its row, the second keeps row and watch and has
\* no slot.
C32_Witness ==
    /\ last.outcome = "committed"
    /\ \E loc \in LocationsOf(last.payload) :
           /\ AllCourtsFilteredOut(loc)
           /\ Val(loc.id) \notin DOMAIN last.pre.locations
           /\ Val(loc.id) \in DOMAIN db.locations
    /\ \E loc \in DOMAIN last.pre.locations \ LocationIdsOf(last.payload) :
           /\ \E id \in DOMAIN last.pre.slots : last.pre.slots[id].location_id = loc
           /\ \E w \in DOMAIN last.pre.watches : last.pre.watches[w].location_id = loc
           /\ loc \in DOMAIN db.locations
           /\ \A id \in DOMAIN db.slots : db.slots[id].location_id # loc
           /\ \E w \in DOMAIN db.watches : db.watches[w].location_id = loc

(***************************************************************************)
(* C33  Alerts are immutable under sync cycles: a cycle neither modifies   *)
(* nor deletes an Alert row that existed before it, so the set of Alert    *)
(* rows only grows and the fields of a row never change, also when the     *)
(* slot the alert was fired for is deleted from the persisted slots.       *)
(***************************************************************************)
C33_AlertsImmutable ==
    last.outcome # "none" =>
        \A a \in DOMAIN last.pre.alerts :
            /\ a \in DOMAIN db.alerts
            /\ db.alerts[a] = last.pre.alerts[a]

\* A committed cycle fired a new alert and deleted the slot an earlier alert was
\* fired for; that alert is still there.
C33_Witness ==
    /\ last.outcome = "committed"
    /\ last.alertNew # <<>>
    /\ \E a \in DOMAIN last.pre.alerts, id \in last.slotDel :
           /\ last.pre.slots[id].court_id = last.pre.alerts[a].court_id
           /\ last.pre.slots[id].slot_time_local = last.pre.alerts[a].slot_time_local
           /\ id \notin DOMAIN db.slots
           /\ a \in DOMAIN db.alerts

(***************************************************************************)
(* C34  Referential integrity under interleaving: in every reachable       *)
(* state, also when delete_watch interleaves with a running sync cycle,    *)
(* every Alert row's watch_id refers to an existing WatchRule.             *)
(***************************************************************************)
C34_ReferentialIntegrity ==
    \A a \in DOMAIN db.alerts : db.alerts[a].watch_id \in DOMAIN db.watches

(***************************************************************************)
(* Vocabulary of the bad blocks: a location block without id or name, a    *)
(* location block whose id another block of the snapshot has, a court      *)
(* whose maxReservationTime is a string that is not HH:MM:SS; and the      *)
(* snapshot without them.                                                  *)
(***************************************************************************)
LacksIdOrName(loc) == loc.id = Missing \/ loc.name = Missing

IsRepeated(payload, i) ==
    \E j \in 1..Len(payload) \ {i} :
        /\ Present(payload[j].location)
        /\ Val(payload[j].location).id = Val(payload[i].location).id

HasBadReservationTime(court) ==
    /\ Present(court.maxReservationTime)
    /\ Val(court.maxReservationTime).kind = "str"
    /\ Val(court.maxReservationTime).parts # <<>>
    /\ ~IsHms(court.maxReservationTime)

IsBadBlock(payload, i) ==
    /\ Present(payload[i].location)
    /\ \/ LacksIdOrName(Val(payload[i].location))
       \/ IsRepeated(payload, i)

WithoutBadBlocks(payload) ==
    LET kept == SelectSeq([i \in 1..Len(payload) |-> [i |-> i, entry |-> payload[i]]],
                          LAMBDA e : ~IsBadBlock(payload, e.i))
    IN  [k \in 1..Len(kept) |->
            IF ~Present(kept[k].entry.location) THEN kept[k].entry
            ELSE [location |-> Some([Val(kept[k].entry.location) EXCEPT !.courts =
                     Some(SelectSeq(Val(@), LAMBDA court :
                                       ~HasBadReservationTime(court)))])]]

(***************************************************************************)
(* C35  One bad block does not abort the batch: a cycle whose snapshot     *)
(* holds a location block without id or name, a location block given more  *)
(* than once, or a court whose maxReservationTime string is not HH:MM:SS,  *)
(* is committed, and the slots of every other court and location of the    *)
(* snapshot are persisted by it.                                           *)
(***************************************************************************)
C35_BadBlockIsLocal ==
    last.ran_sync /\ WithoutBadBlocks(last.payload) # last.payload =>
        /\ last.outcome = "committed"
        /\ CanonicalKeys(WithoutBadBlocks(last.payload), target_sport_id)
               \subseteq SlotKeys(db.slots)

====
